---- MODULE Spec2Model ----
(***************************************************************************)
(* Event-sourced on-chain state caches of the UMA bots:                    *)
(*   - OptimisticOracleClient.update() and its synchronous getters         *)
(*     (packages/financial-templates-lib/src/clients/                      *)
(*     OptimisticOracleClient.js), specification SpecOO;                   *)
(*   - InsuredBridgeL2Client.update() with its multi-provider check        *)
(*     (packages/financial-templates-lib/src/clients/                      *)
(*     InsuredBridgeL2Client.ts), specification SpecL2.                    *)
(* Every await of the code is a step boundary: between two steps of an     *)
(* update the chain may advance and a getter may be called.                *)
(***************************************************************************)
EXTENDS Integers, Sequences, FiniteSets, TLC

VARIABLES
  \* ---- the OptimisticOracle / Voting contracts as seen through web3 ----
  blockNumber,            \* number of the latest block; block b has time b
  requestLog,             \* RequestPrice events, oldest first
  proposalLog,            \* ProposePrice events, oldest first
  disputeLog,             \* DisputePrice events, oldest first
  dvmResolved,            \* keys for which Voting.getPrice has a price
  settled,                \* keys whose OptimisticOracle state is Settled
  \* ---- OptimisticOracleClient fields ----
  unproposedPriceRequests,
  undisputedProposals,
  expiredProposals,
  settleableDisputes,
  lastUpdateTimestamp,
  \* ---- the running OptimisticOracleClient.update(): position and locals ----
  pc,                     \* "idle", or the await the call is suspended at
  earliestBlockToQuery,
  pendingReads,           \* reads of the Promise.all of line 103 not yet resolved
  requestEvents,
  proposalEvents,
  disputeEvents,
  currentTime,
  priceAnswers,           \* per dispute, what the calls of lines 157-171 gave:
                          \* "pending", "price", "revertData" or "throws"
  resolvedPrices,         \* per dispute: "pending", "null" or "event"
  disputeStates,          \* per dispute: "none", "pending" or the getState answer
  \* ---- bookkeeping of the caller (poll loop) ----
  outcome,                \* how the last update() ended: "none", "ok", "failed"
  preUpdate,              \* the four lists when the running/last update() began
  observed,               \* values of the four lists a getter could have read
                          \* at the suspension points of the running/last update
  sourceKeys,             \* per list, the keys of the events its entries were
                          \* mapped from (the entries carry no ancillaryData);
                          \* proposed: the keys of the requests that an update()
                          \* that succeeded fetched together with a proposal
  prevReads,              \* what the update() before the running/last one read,
                          \* if it resolved; <<>> otherwise
  \* ---- the BridgeDepositBox contract and its L2 providers ----
  l2Head,                 \* latest L2 block
  l2Events,               \* FundsDeposited / WhitelistToken events, oldest first
  \* ---- InsuredBridgeL2Client fields and constructor arguments ----
  numProviders,           \* l2Web3s.length
  startingBlockNumber,
  endingBlockNumber,      \* <<n>> for the block number n, <<>> for null
  deposits,               \* depositHash => Deposit
  whitelistedTokens,      \* L1Token => L2Token
  firstBlockToSearch,
  \* ---- the running InsuredBridgeL2Client.update() ----
  l2pc,                   \* "idle", "awaitBlockNumber", "awaitEvents", "awaitProvider"
  blockSearchConfig,      \* [fromBlock, toBlock]
  fundsDepositedEvents,
  whitelistedTokenEvents,
  providerIndex,          \* i of the loop of line 98
  \* ---- bookkeeping of the caller ----
  l2Outcome,              \* "none", "ok", "noop", "failed"
  l2Error,                \* message of the error update() threw, "" if none
  l2Pre,                  \* deposits, whitelistedTokens, firstBlockToSearch at entry
  l2Queried,              \* block ranges of the updates that completed, in order
  l2Extra,                \* the events of provider i >= 1 that made update() throw
  l2Missing,              \* events the first provider returned in this update()
                          \* and a later provider did not
  l2Ingested,             \* the WhitelistToken events stored so far, in order
  \* ---- a second update() of the same client, started while one is running ----
  l2Second,               \* [pc, blockSearchConfig, fundsDepositedEvents,
                          \* whitelistedTokenEvents, providerIndex, outcome,
                          \* calls]: its locals, how it ended, and how many
                          \* such calls were made
  \* ---- a price feed (TwelveDataApi, MarketStack or HmLandRegistry) ----
  feedKind,               \* which of the three classes the instance is
  feedTime,               \* the clock behind getTime()
  feedCurrentPrice,       \* currentPrice: <<>> for null, <<p>> for the BN p
  feedPriceHistory,       \* priceHistory: records [date, price]
  feedLastUpdateTime,     \* lastUpdateTime: <<>> for null, <<t>> for the number t
  \* ---- the running update() of the price feed ----
  feedPc,                 \* "idle", "awaitTime", "awaitJson"
  feedNow,                \* currentTime of line 50
  \* ---- bookkeeping of the caller ----
  feedOutcome,            \* "none", "ok", "skipped", "failed"
  feedPre,                \* the fields of the feed at entry of update()
  feedFetches,            \* the getJson requests sent: [time, lastUpdateTime, outcome]
  feedAsked,              \* <<[time, result]>> when the last step was a call of
                          \* getHistoricalPrice(time), <<>> otherwise
  \* ---- the sending account on the chain, as the node of sendTxWithKMS sees it ----
  kmsConfirmed,           \* transactions of the account that are mined
  kmsPending,             \* transactions of the account in the pool, not mined
  \* ---- the running sendTxWithKMS() ----
  kmsPc,                  \* "idle", "awaitHasPending", "awaitNonce",
                          \* "awaitSimulation", "awaitSign", "awaitSend"
  transactionConfig,      \* the argument: [maxFeePerGas, maxPriorityFeePerGas,
                          \* gasPrice, nonce], <<>> for undefined, <<n>> for n
  kmsHasPending,          \* what accountHasPendingTransactions answered
  returnValue,            \* <<>> or <<v>>: the result of transaction.call
  txParams,               \* <<>> or <<the record of lines 99-111>>
  kmsPooled,              \* the node took the signed transaction into its pool
  \* ---- bookkeeping of the caller ----
  kmsOutcome,             \* "none", "ok", "failed"
  kmsError,               \* [at, type] of the error the call rejected with
  kmsSeen,                \* [confirmed, pending] of the account at the nonce read
  kmsInterfered,          \* another sender used the account during the call
  kmsRequests,            \* the requests the call issued, in order
  \* ---- a DisputerBalanceAlarm ----
  dbaPollingDelay,        \* pollingDelay
  dbaLastInfoUpdate,      \* lastInfoUpdate
  dbaNumOfOpenPositions,  \* numOfOpenPositions
  dbaTotalCollateral,     \* totalCollateralAmount
  dbaBondPercentage,      \* disputerBondPercentage, in units of 1 / BondScale
  \* ---- the running checkDisputerBotBalanceAgainstStrategy() ----
  dbaPc,                  \* "idle", "awaitPositions", "awaitTotalCollateral",
                          \* "awaitOoReward", "awaitBondPercentage"
  dbaBalance,             \* currentCollateralBalance
  dbaOoReward,            \* ooReward of line 77
  \* ---- bookkeeping of the caller ----
  dbaOutcome,             \* "none", "ok", "threw"
  dbaLogs,                \* the levels logged in this check, in order
  dbaTarget,              \* <<>> or <<the target the check computed>>
  dbaPre,                 \* lastInfoUpdate at entry of the check
  dbaThrown,              \* "" or the call whose error the check re-threw
  dbaChecksSinceInfo,     \* checks that returned since the last info log, the
                          \* check that logged it included
  \* ---- a WalletBalanceAlarm of the liquidator ----
  wbaNumOfOpenPositions,  \* numOfOpenPositions
  \* ---- the running checkLiquidatorBotBalanceAgainstStrategy() ----
  wbaPc,                  \* "idle", "awaitSynthPositions", "awaitOoReward",
                          \* "awaitCollateralPositions"
  wbaSyntheticBalance,    \* currentSyntheticBalance
  wbaCollateralBalance,   \* currentCollateralBalance
  wbaSynthTarget,         \* <<>> or <<targetWalletSynthBalance>>
  wbaOoReward,            \* ooReward of line 83
  \* ---- bookkeeping of the caller ----
  wbaCollateralTarget,    \* <<>> or <<targetWalletCollateralBalance>>
  wbaLogs,                \* the logs of this check, in order
  wbaOutcome,             \* "none", "true", "false", "threw"
  \* ---- a ProxyTransactionWrapper of the disputer ----
  useDsProxyToDispute,
  useKMSToDispute,
  \* ---- the running submitDisputeTransaction() ----
  ptwRoute,               \* "" or the method submitDisputeTransaction called last
  ptwStep,                \* 0 when no call runs, else the index of the await the
                          \* method is suspended at
  disputeArgs,            \* [liquidationId, sponsor]
  \* ---- bookkeeping of the caller ----
  ptwCalls,               \* the calls the method awaited so far, in order
  ptwResult,              \* <<>> or <<[how, type]>>: how the call ended
  ptwSubmitted,           \* the calls of submitDisputeTransaction so far
  \* ---- a CommoditiesApiPriceFeed ----
  comTime,                \* the clock behind getTime()
  comCurrentPrice,        \* currentPrice: <<>> for null, else <<[promise, with,
                          \* from]>>, the promise getHistoricalPrice returned
  comPriceHistory,        \* priceHistory: <<>> for {}, else the periods
  comLastUpdateTime,      \* lastUpdateTime: <<>> for null, <<t>> for the number t
  \* ---- the running update() ----
  comPc,                  \* "idle", "awaitTime", "awaitJson"
  comNow,                 \* currentTime of line 232
  \* ---- bookkeeping of the caller ----
  comOutcome,             \* "none", "ok", "skipped", "failed"
  \* ---- the MockOracle contract ----
  verifiedPrices,         \* [identifier, time] -> Price
  queryIndices,           \* [identifier, time] -> QueryIndex
  requestedPrices,        \* QueryPoint[]; element i of the array is at i + 1
  \* ---- the OptimisticDex contract, with the MockOracle as its oracle ----
  dexTime,                \* getCurrentTime() of the Timer both contracts share
  fillRequests,           \* depositor -> DepositData
  completedFills,         \* the fill hashes mapped to true
  totalOptimisticDexCollateral,
  \* ---- bookkeeping of the callers ----
  moAsked,                \* the pairs requestPrice was called with
  moPushed                \* the pairs pushPrice gave a price

ooVars == <<blockNumber, requestLog, proposalLog, disputeLog, dvmResolved, settled,
            unproposedPriceRequests, undisputedProposals, expiredProposals,
            settleableDisputes, lastUpdateTimestamp, pc, earliestBlockToQuery,
            pendingReads, requestEvents, proposalEvents, disputeEvents, currentTime,
            priceAnswers, resolvedPrices, disputeStates, outcome, preUpdate, observed,
            sourceKeys, prevReads>>

l2Vars == <<l2Head, l2Events, numProviders, startingBlockNumber, endingBlockNumber,
            deposits, whitelistedTokens, firstBlockToSearch, l2pc, blockSearchConfig,
            fundsDepositedEvents, whitelistedTokenEvents, providerIndex, l2Outcome,
            l2Error, l2Pre, l2Queried, l2Extra, l2Missing, l2Ingested, l2Second>>

feedVars == <<feedKind, feedTime, feedCurrentPrice, feedPriceHistory,
              feedLastUpdateTime, feedPc, feedNow, feedOutcome, feedPre, feedFetches,
              feedAsked>>

kmsVars == <<kmsConfirmed, kmsPending, kmsPc, transactionConfig, kmsHasPending,
             returnValue, txParams, kmsPooled, kmsOutcome, kmsError, kmsSeen,
             kmsInterfered, kmsRequests>>

dbaVars == <<dbaPollingDelay, dbaLastInfoUpdate, dbaNumOfOpenPositions,
             dbaTotalCollateral, dbaBondPercentage, dbaPc, dbaBalance, dbaOoReward,
             dbaOutcome, dbaLogs, dbaTarget, dbaPre, dbaThrown, dbaChecksSinceInfo>>

wbaVars == <<wbaNumOfOpenPositions, wbaPc, wbaSyntheticBalance, wbaCollateralBalance,
             wbaSynthTarget, wbaOoReward, wbaCollateralTarget, wbaLogs, wbaOutcome>>

ptwVars == <<useDsProxyToDispute, useKMSToDispute, ptwRoute, ptwStep, disputeArgs,
             ptwCalls, ptwResult, ptwSubmitted>>

comVars == <<comTime, comCurrentPrice, comPriceHistory, comLastUpdateTime, comPc,
             comNow, comOutcome>>

dexVars == <<verifiedPrices, queryIndices, requestedPrices, dexTime, fillRequests,
             completedFills, totalOptimisticDexCollateral, moAsked, moPushed>>

vars == <<ooVars, l2Vars, feedVars, kmsVars, dbaVars, wbaVars, ptwVars, comVars,
          dexVars>>

\* What the steps of one component leave alone: the other components.
notOO == <<l2Vars, feedVars, kmsVars, dbaVars, wbaVars, ptwVars, comVars,
  dexVars>>
notBridge == <<ooVars, feedVars, kmsVars, dbaVars, wbaVars, ptwVars, comVars,
  dexVars>>
notL2 == <<notBridge, l2Second>>
notFeed == <<ooVars, l2Vars, kmsVars, dbaVars, wbaVars, ptwVars, comVars,
  dexVars>>
notKms == <<ooVars, l2Vars, feedVars, dbaVars, wbaVars, ptwVars, comVars,
  dexVars>>
notDba == <<ooVars, l2Vars, feedVars, kmsVars, wbaVars, ptwVars, comVars,
  dexVars>>
notWba == <<ooVars, l2Vars, feedVars, kmsVars, dbaVars, ptwVars, comVars,
  dexVars>>
notPtw == <<ooVars, l2Vars, feedVars, kmsVars, dbaVars, wbaVars, comVars,
  dexVars>>
notCom == <<ooVars, l2Vars, feedVars, kmsVars, dbaVars, wbaVars, ptwVars,
  dexVars>>
notDex == <<ooVars, l2Vars, feedVars, kmsVars, dbaVars, wbaVars, ptwVars, comVars>>

NULL == "null"

-----------------------------------------------------------------------------
(* Generic helpers.                                                        *)

MapSeq(s, F(_)) == [i \in 1..Len(s) |-> F(s[i])]

Range(s) == {s[i] : i \in 1..Len(s)}

\* The indices 1..n that satisfy P, in increasing order.
Indices(n, P(_)) == SelectSeq([i \in 1..n |-> i], P)

\* Number of positions of s that hold v.
Count(s, v) == Cardinality({i \in 1..Len(s) : s[i] = v})

Max2(a, b) == IF a >= b THEN a ELSE b

\* Math.ceil(a / b) for a >= 0, b > 0.
CeilDiv(a, b) == (a + b - 1) \div b

-----------------------------------------------------------------------------
(* Bounds of the model.                                                    *)

MaxBlock == 5          \* blocks the OptimisticOracle chain may mine
Liveness == 2          \* proposal liveness, in blocks
Lookback == 3          \* the lookback argument of the constructor, in seconds
AverageBlockTime == 1  \* averageBlockTimeSeconds()

-----------------------------------------------------------------------------
(* The OptimisticOracle chain.                                             *)

\* Request keys: the two differ in ancillaryData only.
Keys == { [requester |-> "0xR1", identifier |-> "0x41", timestamp |-> "10",
           ancillaryData |-> "0x"],
          [requester |-> "0xR1", identifier |-> "0x41", timestamp |-> "10",
           ancillaryData |-> "0xaa"] }

FirstKey == [requester |-> "0xR1", identifier |-> "0x41", timestamp |-> "10",
             ancillaryData |-> "0x"]
SecondKey == [requester |-> "0xR1", identifier |-> "0x41", timestamp |-> "10",
              ancillaryData |-> "0xaa"]

Proposers == {"0xP1"}
Disputers == {"0xD1"}

KeyOf(e) == [requester |-> e.requester, identifier |-> e.identifier,
             timestamp |-> e.timestamp, ancillaryData |-> e.ancillaryData]

RequestPriceEvent(k, b) ==
  [requester |-> k.requester, identifier |-> k.identifier, timestamp |-> k.timestamp,
   ancillaryData |-> k.ancillaryData, currency |-> "0xC", reward |-> "0",
   finalFee |-> "0", blockNumber |-> b]

ProposePriceEvent(k, p, b) ==
  [requester |-> k.requester, identifier |-> k.identifier, timestamp |-> k.timestamp,
   ancillaryData |-> k.ancillaryData, proposer |-> p, proposedPrice |-> "1",
   expirationTimestamp |-> b + Liveness, blockNumber |-> b]

DisputePriceEvent(k, p, d, b) ==
  [requester |-> k.requester, identifier |-> k.identifier, timestamp |-> k.timestamp,
   ancillaryData |-> k.ancillaryData, proposer |-> p, disputer |-> d,
   proposedPrice |-> "1", blockNumber |-> b]

KeysIn(log) == {KeyOf(e) : e \in Range(log)}

ProposalOf(k) == CHOOSE e \in Range(proposalLog) : KeyOf(e) = k

\* OptimisticOracle.getCurrentTime(): the time of the latest block.
GetCurrentTime == blockNumber

\* OptimisticOracle.getState(requester, identifier, timestamp, ancillaryData).
GetState(k) ==
  IF k \in settled THEN "Settled"
  ELSE IF k \in dvmResolved THEN "Resolved"
  ELSE IF k \in KeysIn(disputeLog) THEN "Disputed"
  ELSE IF k \in KeysIn(proposalLog)
       THEN (IF ProposalOf(k).expirationTimestamp <= GetCurrentTime
             THEN "Expired" ELSE "Proposed")
  ELSE IF k \in KeysIn(requestLog) THEN "Requested"
  ELSE "Invalid"

\* contract.getPastEvents(name, { fromBlock }): no upper bound, so up to the latest
\* block at the moment the node answers.
GetPastEvents(log, fromBlock) == SelectSeq(log, LAMBDA e : e.blockNumber >= fromBlock)

chainVars == <<blockNumber, requestLog, proposalLog, disputeLog, dvmResolved, settled>>
clientVars == <<unproposedPriceRequests, undisputedProposals, expiredProposals,
                settleableDisputes, lastUpdateTimestamp>>
localVars == <<earliestBlockToQuery, pendingReads, requestEvents, proposalEvents,
               disputeEvents, currentTime, priceAnswers, resolvedPrices,
               disputeStates>>
callerVars == <<outcome, preUpdate, observed, sourceKeys, prevReads>>

\* A block without OptimisticOracle events: time passes.
MineBlock ==
  /\ blockNumber < MaxBlock
  /\ blockNumber' = blockNumber + 1
  /\ UNCHANGED <<requestLog, proposalLog, disputeLog, dvmResolved, settled>>
  /\ UNCHANGED <<clientVars, pc, localVars, callerVars, notOO>>

\* OptimisticOracle.requestPrice: only for a key in state Invalid.
RequestPrice ==
  /\ blockNumber < MaxBlock
  /\ \E k \in Keys :
       /\ GetState(k) = "Invalid"
       /\ requestLog' = Append(requestLog, RequestPriceEvent(k, blockNumber + 1))
  /\ blockNumber' = blockNumber + 1
  /\ UNCHANGED <<proposalLog, disputeLog, dvmResolved, settled>>
  /\ UNCHANGED <<clientVars, pc, localVars, callerVars, notOO>>

\* OptimisticOracle.proposePrice: only for a key in state Requested.
ProposePrice ==
  /\ blockNumber < MaxBlock
  /\ \E k \in Keys, p \in Proposers :
       /\ GetState(k) = "Requested"
       /\ proposalLog' = Append(proposalLog, ProposePriceEvent(k, p, blockNumber + 1))
  /\ blockNumber' = blockNumber + 1
  /\ UNCHANGED <<requestLog, disputeLog, dvmResolved, settled>>
  /\ UNCHANGED <<clientVars, pc, localVars, callerVars, notOO>>

\* OptimisticOracle.disputePrice: only for a key in state Proposed (not yet expired
\* in the block that holds the dispute).
DisputePrice ==
  /\ blockNumber < MaxBlock
  /\ \E k \in Keys, d \in Disputers :
       /\ GetState(k) = "Proposed"
       /\ ProposalOf(k).expirationTimestamp > blockNumber + 1
       /\ disputeLog' = Append(disputeLog,
            DisputePriceEvent(k, ProposalOf(k).proposer, d, blockNumber + 1))
  /\ blockNumber' = blockNumber + 1
  /\ UNCHANGED <<requestLog, proposalLog, dvmResolved, settled>>
  /\ UNCHANGED <<clientVars, pc, localVars, callerVars, notOO>>

\* The DVM vote resolves the price of a disputed request.
DvmResolve ==
  /\ blockNumber < MaxBlock
  /\ \E k \in Keys :
       /\ GetState(k) = "Disputed"
       /\ dvmResolved' = dvmResolved \cup {k}
  /\ blockNumber' = blockNumber + 1
  /\ UNCHANGED <<requestLog, proposalLog, disputeLog, settled>>
  /\ UNCHANGED <<clientVars, pc, localVars, callerVars, notOO>>

\* OptimisticOracle.settle of a resolved dispute. (The client reads getState for
\* disputes only, so the settlement of an undisputed proposal is left out: nothing
\* the client reads changes with it.)
Settle ==
  /\ blockNumber < MaxBlock
  /\ \E k \in Keys :
       /\ GetState(k) = "Resolved"
       /\ settled' = settled \cup {k}
  /\ blockNumber' = blockNumber + 1
  /\ UNCHANGED <<requestLog, proposalLog, disputeLog, dvmResolved>>
  /\ UNCHANGED <<clientVars, pc, localVars, callerVars, notOO>>

-----------------------------------------------------------------------------
(* OptimisticOracleClient: pure parts of update().                         *)

\* web3.utils.hexToUtf8 on the identifiers in use: the text the bytes encode.
hexToUtf8(hex) == IF hex = "0x41" THEN "A" ELSE IF hex = "0x42" THEN "B" ELSE ""

\* OptimisticOracleRequestStatesEnum.SETTLED of @uma/common.
SETTLED == "Settled"

getPriceRequestKey_NoAncillaryData(reqEvent) ==
  reqEvent.requester \o "-" \o reqEvent.identifier \o "-" \o reqEvent.timestamp

\* `${requester}-${identifier}-${timestamp}-${ancillaryData}`
getPriceRequestKey(reqEvent) ==
  reqEvent.requester \o "-" \o reqEvent.identifier \o "-" \o reqEvent.timestamp
    \o "-" \o reqEvent.ancillaryData

\* proposalEvents.find(e => key(e) === key) !== undefined, and the same for disputes.
Find(events, key) == \E i \in 1..Len(events) : getPriceRequestKey(events[i]) = key

FilterUnproposed_KeepsAll(requests, proposals) == requests

\* requestEvents.filter(...) of lines 111-115.
FilterUnproposed(requests, proposals) ==
  SelectSeq(requests, LAMBDA event : ~Find(proposals, getPriceRequestKey(event)))

FilterUndisputed_KeepsAll(proposals, disputes) == proposals

\* proposalEvents.filter(...) of lines 128-132.
FilterUndisputed(proposals, disputes) ==
  SelectSeq(proposals, LAMBDA event : ~Find(disputes, getPriceRequestKey(event)))

\* The object of lines 117-124.
MapRequest(event) ==
  [requester |-> event.requester, identifier |-> hexToUtf8(event.identifier),
   timestamp |-> event.timestamp, currency |-> event.currency,
   reward |-> event.reward, finalFee |-> event.finalFee]

\* The object of lines 134-141.
MapProposal(event) ==
  [requester |-> event.requester, proposer |-> event.proposer,
   identifier |-> hexToUtf8(event.identifier), timestamp |-> event.timestamp,
   proposedPrice |-> event.proposedPrice,
   expirationTimestamp |-> event.expirationTimestamp]

\* The object of lines 209-215.
MapDispute(dispute) ==
  [requester |-> dispute.requester, proposer |-> dispute.proposer,
   disputer |-> dispute.disputer, identifier |-> hexToUtf8(dispute.identifier),
   timestamp |-> dispute.timestamp]

isExpired_Strict(proposal, time) == proposal.expirationTimestamp < time

\* Number(proposal.expirationTimestamp) <= Number(currentTime)
isExpired(proposal, time) == proposal.expirationTimestamp <= time

\* Voting.getPrice(identifier, timestamp, stampedAncillaryData) and the
\* stampAncillaryData call before it, as the client can see them end.
GetPriceAnswers(k) ==
  IF k \in dvmResolved THEN {"price", "throws"} ELSE {"revertData", "throws"}

\* revertWrapper of @uma/common: null for the data of a revert, else the result.
revertWrapper(result) == IF result = "revertData" THEN NULL ELSE result

ResolvedPrice_ThrowIsPrice(answer) ==
  IF revertWrapper(answer) # NULL THEN "event" ELSE "null"

\* The try/catch of lines 154-180: the event for a price, null for no price and for
\* a throw of either call.
ResolvedPrice(answer) ==
  IF answer = "throws" THEN "null"
  ELSE IF revertWrapper(answer) # NULL THEN "event" ELSE "null"

IsSettleable_IgnoresState(resolvedPrice, state) == resolvedPrice # "null"

\* Lines 183-185 and 208: the dispute has a resolved price and its state is not
\* Settled.
IsSettleable(resolvedPrice, state) == resolvedPrice # "null" /\ state # SETTLED

\* The getters.
getUnproposedPriceRequests == unproposedPriceRequests
getUndisputedProposals == undisputedProposals
getExpiredProposals(caller) ==
  SelectSeq(expiredProposals, LAMBDA event : event.proposer = caller)
getSettleableDisputes(caller) ==
  SelectSeq(settleableDisputes, LAMBDA event : event.disputer = caller)
getLastUpdateTime == lastUpdateTimestamp

\* Everything update() has read from the node when it resolves.
Reads == <<requestEvents, proposalEvents, disputeEvents, currentTime, priceAnswers,
           disputeStates>>

ResetSettleableDisputes_Keeps(list) == list

\* Line 206: this.settleableDisputes = [].
ResetSettleableDisputes(list) == <<>>

\* The four lists as a caller of the getters can read them at one instant.
Lists == <<unproposedPriceRequests, undisputedProposals, expiredProposals,
           settleableDisputes>>

-----------------------------------------------------------------------------
(* OptimisticOracleClient.update(), one action per resumption.             *)

AllReads == {"RequestPrice", "ProposePrice", "DisputePrice", "getCurrentTime"}

AllResolved_FirstResolved(pending) == pending # AllReads

\* The await Promise.all([...]) of line 103 resumes when no read is pending.
AllResolved(pending) == pending = {}

\* The caller starts update(); calls do not overlap. The call runs up to the await
\* of line 95.
UpdateStart ==
  /\ pc = "idle"
  /\ pc' = "awaitBlock"
  /\ outcome' = "none"
  /\ preUpdate' = Lists
  /\ observed' = {Lists}
  /\ prevReads' = IF outcome = "ok" THEN Reads ELSE <<>>
  /\ UNCHANGED sourceKeys
  /\ earliestBlockToQuery' = 0
  /\ pendingReads' = {}
  /\ requestEvents' = <<>>
  /\ proposalEvents' = <<>>
  /\ disputeEvents' = <<>>
  /\ currentTime' = 0
  /\ priceAnswers' = <<>>
  /\ resolvedPrices' = <<>>
  /\ disputeStates' = <<>>
  /\ UNCHANGED <<chainVars, clientVars, notOO>>

\* Lines 95-108: the average block time and the latest block arrive; the four reads
\* of line 103 are issued.
BlockRead ==
  /\ pc = "awaitBlock"
  /\ LET lookbackBlocks == CeilDiv(Lookback, AverageBlockTime)
     IN earliestBlockToQuery' = Max2(blockNumber - lookbackBlocks, 0)
  /\ pendingReads' = AllReads
  /\ pc' = "awaitEvents"
  /\ UNCHANGED <<chainVars, clientVars, requestEvents, proposalEvents, disputeEvents,
                 currentTime, priceAnswers, resolvedPrices, disputeStates, callerVars,
                 notOO>>

\* One read of the Promise.all of lines 103-108 is answered by the node, from the
\* chain as it is at that moment.
EventRead ==
  /\ pc = "awaitEvents"
  /\ \E read \in pendingReads :
       /\ pendingReads' = pendingReads \ {read}
       /\ requestEvents' = IF read = "RequestPrice"
                           THEN GetPastEvents(requestLog, earliestBlockToQuery)
                           ELSE requestEvents
       /\ proposalEvents' = IF read = "ProposePrice"
                            THEN GetPastEvents(proposalLog, earliestBlockToQuery)
                            ELSE proposalEvents
       /\ disputeEvents' = IF read = "DisputePrice"
                           THEN GetPastEvents(disputeLog, earliestBlockToQuery)
                           ELSE disputeEvents
       /\ currentTime' = IF read = "getCurrentTime" THEN GetCurrentTime ELSE currentTime
  /\ UNCHANGED <<chainVars, clientVars, pc, earliestBlockToQuery, priceAnswers,
                 resolvedPrices, disputeStates, callerVars, notOO>>

\* Lines 110-152: all four reads resolved; the three lists are assigned and the
\* price calls are issued; update() suspends at the await of line 152.
Correlate ==
  /\ pc = "awaitEvents"
  /\ AllResolved(pendingReads)
  /\ unproposedPriceRequests' =
       MapSeq(FilterUnproposed(requestEvents, proposalEvents), MapRequest)
  /\ LET undisputed == MapSeq(FilterUndisputed(proposalEvents, disputeEvents),
                              MapProposal)
     IN /\ expiredProposals' =
             SelectSeq(undisputed, LAMBDA proposal : isExpired(proposal, currentTime))
        /\ undisputedProposals' =
             SelectSeq(undisputed, LAMBDA proposal : ~isExpired(proposal, currentTime))
  /\ priceAnswers' = [i \in 1..Len(disputeEvents) |-> "pending"]
  /\ resolvedPrices' = [i \in 1..Len(disputeEvents) |-> "pending"]
  /\ pc' = "awaitPrices"
  /\ UNCHANGED <<chainVars, settleableDisputes, lastUpdateTimestamp,
                 earliestBlockToQuery, pendingReads, requestEvents, proposalEvents,
                 disputeEvents, currentTime, disputeStates, outcome, preUpdate,
                 prevReads, notOO>>
  /\ observed' = observed \cup {Lists'}
  /\ LET kept == FilterUndisputed(proposalEvents, disputeEvents)
     IN sourceKeys' =
          [sourceKeys EXCEPT
             !.unproposed = KeysIn(FilterUnproposed(requestEvents, proposalEvents)),
             !.expired = KeysIn(SelectSeq(kept,
                 LAMBDA event : isExpired(MapProposal(event), currentTime))),
             !.undisputed = KeysIn(SelectSeq(kept,
                 LAMBDA event : ~isExpired(MapProposal(event), currentTime)))]

\* Lines 153-181 for one dispute: the calls of stampAncillaryData and getPrice end.
\* Voting has a price only for a resolved request; without one the call throws or
\* returns the data of the revert; and either call may throw for other reasons.
ResolvePrice ==
  /\ pc = "awaitPrices"
  /\ \E i \in 1..Len(disputeEvents) :
       /\ resolvedPrices[i] = "pending"
       /\ \E answer \in GetPriceAnswers(KeyOf(disputeEvents[i])) :
            /\ priceAnswers' = [priceAnswers EXCEPT ![i] = answer]
            /\ resolvedPrices' = [resolvedPrices EXCEPT ![i] = ResolvedPrice(answer)]
  /\ UNCHANGED <<chainVars, clientVars, pc, earliestBlockToQuery, pendingReads,
                 requestEvents, proposalEvents, disputeEvents, currentTime,
                 disputeStates, callerVars, notOO>>

\* Lines 183-203: the price calls are all in; the getState calls are issued for the
\* disputes with a resolved price.
PricesJoin ==
  /\ pc = "awaitPrices"
  /\ \A i \in 1..Len(disputeEvents) : resolvedPrices[i] # "pending"
  /\ disputeStates' = [i \in 1..Len(disputeEvents) |->
                         IF resolvedPrices[i] = "event" THEN "pending" ELSE "none"]
  /\ pc' = "awaitStates"
  /\ UNCHANGED <<chainVars, clientVars, earliestBlockToQuery, pendingReads,
                 requestEvents, proposalEvents, disputeEvents, currentTime,
                 priceAnswers, resolvedPrices, callerVars, notOO>>

\* Lines 190-197 for one dispute: getState answers.
StateRead ==
  /\ pc = "awaitStates"
  /\ \E i \in 1..Len(disputeEvents) :
       /\ disputeStates[i] = "pending"
       /\ disputeStates' =
            [disputeStates EXCEPT ![i] = GetState(KeyOf(disputeEvents[i]))]
  /\ UNCHANGED <<chainVars, clientVars, pc, earliestBlockToQuery, pendingReads,
                 requestEvents, proposalEvents, disputeEvents, currentTime,
                 priceAnswers, resolvedPrices, callerVars, notOO>>

\* Lines 205-228: settleableDisputes is rebuilt and lastUpdateTimestamp set;
\* update() resolves.
Finish ==
  /\ pc = "awaitStates"
  /\ \A i \in 1..Len(disputeEvents) : disputeStates[i] # "pending"
  /\ settleableDisputes' =
       ResetSettleableDisputes(settleableDisputes) \o
       MapSeq(Indices(Len(disputeEvents),
                      LAMBDA i : IsSettleable(resolvedPrices[i], disputeStates[i])),
              LAMBDA i : MapDispute(disputeEvents[i]))
  /\ lastUpdateTimestamp' = currentTime
  /\ pc' = "idle"
  /\ outcome' = "ok"
  /\ sourceKeys' =
       [sourceKeys EXCEPT
          !.settleable = {KeyOf(disputeEvents[i]) : i \in
             {j \in 1..Len(disputeEvents) :
                IsSettleable(resolvedPrices[j], disputeStates[j])}},
          !.proposed = @ \cup (KeysIn(requestEvents) \cap KeysIn(proposalEvents))]
  /\ UNCHANGED <<chainVars, unproposedPriceRequests, undisputedProposals,
                 expiredProposals, localVars, preUpdate, observed, prevReads, notOO>>

\* A rejected promise ends update() where it is suspended: its locals are gone and
\* no field of the client is restored.
Rejected ==
  /\ pc' = "idle"
  /\ outcome' = "failed"
  /\ earliestBlockToQuery' = 0
  /\ pendingReads' = {}
  /\ requestEvents' = <<>>
  /\ proposalEvents' = <<>>
  /\ disputeEvents' = <<>>
  /\ currentTime' = 0
  /\ priceAnswers' = <<>>
  /\ resolvedPrices' = <<>>
  /\ disputeStates' = <<>>
  /\ UNCHANGED <<chainVars, clientVars, preUpdate, observed, sourceKeys, prevReads,
                 notOO>>

\* Line 95: averageBlockTimeSeconds() or getBlock("latest") rejects.
BlockReadRejects ==
  /\ pc = "awaitBlock"
  /\ Rejected

\* Line 103: one of the reads still pending rejects.
EventReadRejects ==
  /\ pc = "awaitEvents"
  /\ pendingReads # {}
  /\ Rejected

\* Line 188: a getState call still pending rejects (it has no try/catch).
StateReadRejects ==
  /\ pc = "awaitStates"
  /\ \E i \in 1..Len(disputeEvents) : disputeStates[i] = "pending"
  /\ Rejected

InitOO ==
  /\ blockNumber = 0
  /\ requestLog = <<>>
  /\ proposalLog = <<>>
  /\ disputeLog = <<>>
  /\ dvmResolved = {}
  /\ settled = {}
  /\ unproposedPriceRequests = <<>>
  /\ undisputedProposals = <<>>
  /\ expiredProposals = <<>>
  /\ settleableDisputes = <<>>
  /\ lastUpdateTimestamp = 0
  /\ pc = "idle"
  /\ earliestBlockToQuery = 0
  /\ pendingReads = {}
  /\ requestEvents = <<>>
  /\ proposalEvents = <<>>
  /\ disputeEvents = <<>>
  /\ currentTime = 0
  /\ priceAnswers = <<>>
  /\ resolvedPrices = <<>>
  /\ disputeStates = <<>>
  /\ outcome = "none"
  /\ preUpdate = <<<<>>, <<>>, <<>>, <<>>>>
  /\ observed = {}
  /\ sourceKeys = [unproposed |-> {}, undisputed |-> {}, expired |-> {},
                   settleable |-> {}, proposed |-> {}]
  /\ prevReads = <<>>

NextOO ==
  \/ MineBlock
  \/ RequestPrice
  \/ ProposePrice
  \/ DisputePrice
  \/ DvmResolve
  \/ Settle
  \/ UpdateStart
  \/ BlockRead
  \/ EventRead
  \/ Correlate
  \/ ResolvePrice
  \/ PricesJoin
  \/ StateRead
  \/ Finish
  \/ BlockReadRejects
  \/ EventReadRejects
  \/ StateReadRejects

\* The locals of an update() of the bridge client that has not been called.
IdleCall ==
  [pc |-> "idle", blockSearchConfig |-> [fromBlock |-> 0, toBlock |-> 0],
   fundsDepositedEvents |-> <<>>, whitelistedTokenEvents |-> <<>>,
   providerIndex |-> 0, outcome |-> "none", calls |-> 0]

\* A bridge client that is constructed and never updated.
InitL2Idle ==
  /\ l2Second = IdleCall
  /\ l2Head = 0
  /\ l2Events = <<>>
  /\ numProviders = 1
  /\ startingBlockNumber = 0
  /\ endingBlockNumber = <<>>
  /\ deposits = <<>>
  /\ whitelistedTokens = <<>>
  /\ firstBlockToSearch = 0
  /\ l2pc = "idle"
  /\ blockSearchConfig = [fromBlock |-> 0, toBlock |-> 0]
  /\ fundsDepositedEvents = <<>>
  /\ whitelistedTokenEvents = <<>>
  /\ providerIndex = 0
  /\ l2Outcome = "none"
  /\ l2Error = ""
  /\ l2Pre = [deposits |-> <<>>, whitelistedTokens |-> <<>>, firstBlockToSearch |-> 0]
  /\ l2Queried = <<>>
  /\ l2Extra = <<>>
  /\ l2Missing = <<>>
  /\ l2Ingested = <<>>

\* A price feed that is constructed and never updated.
InitFeedIdle ==
  /\ feedKind = "TwelveDataApi"
  /\ feedTime = 0
  /\ feedCurrentPrice = <<>>
  /\ feedPriceHistory = <<>>
  /\ feedLastUpdateTime = <<>>
  /\ feedPc = "idle"
  /\ feedNow = 0
  /\ feedOutcome = "none"
  /\ feedPre = [currentPrice |-> <<>>, priceHistory |-> <<>>, lastUpdateTime |-> <<>>]
  /\ feedFetches = <<>>
  /\ feedAsked = <<>>

\* An account nothing was sent from, and no call of sendTxWithKMS.
InitKmsIdle ==
  /\ kmsConfirmed = 0
  /\ kmsPending = 0
  /\ kmsPc = "idle"
  /\ transactionConfig = [maxFeePerGas |-> <<>>, maxPriorityFeePerGas |-> <<>>,
                          gasPrice |-> <<>>, nonce |-> <<>>]
  /\ kmsHasPending = FALSE
  /\ returnValue = <<>>
  /\ txParams = <<>>
  /\ kmsPooled = FALSE
  /\ kmsOutcome = "none"
  /\ kmsError = [at |-> "none", type |-> <<>>]
  /\ kmsSeen = [confirmed |-> 0, pending |-> 0]
  /\ kmsInterfered = FALSE
  /\ kmsRequests = <<>>

\* A DisputerBalanceAlarm that is constructed and never asked for a check.
InitDbaIdle ==
  /\ dbaPollingDelay = 0
  /\ dbaLastInfoUpdate = 0
  /\ dbaNumOfOpenPositions = 0
  /\ dbaTotalCollateral = 0
  /\ dbaBondPercentage = 0
  /\ dbaPc = "idle"
  /\ dbaBalance = 0
  /\ dbaOoReward = 0
  /\ dbaOutcome = "none"
  /\ dbaLogs = <<>>
  /\ dbaTarget = <<>>
  /\ dbaPre = 0
  /\ dbaThrown = ""
  /\ dbaChecksSinceInfo = 0

\* A WalletBalanceAlarm that is constructed and never asked for a check.
InitWbaIdle ==
  /\ wbaNumOfOpenPositions = 0
  /\ wbaPc = "idle"
  /\ wbaSyntheticBalance = 0
  /\ wbaCollateralBalance = 0
  /\ wbaSynthTarget = <<>>
  /\ wbaOoReward = 0
  /\ wbaCollateralTarget = <<>>
  /\ wbaLogs = <<>>
  /\ wbaOutcome = "none"

\* A ProxyTransactionWrapper with the default configuration and no dispute.
InitPtwIdle ==
  /\ useDsProxyToDispute = FALSE
  /\ useKMSToDispute = FALSE
  /\ ptwRoute = ""
  /\ ptwStep = 0
  /\ disputeArgs = [liquidationId |-> 0, sponsor |-> "sponsor1"]
  /\ ptwCalls = <<>>
  /\ ptwResult = <<>>
  /\ ptwSubmitted = 0

\* The constructor of CommoditiesApiPriceFeed.
InitCom ==
  /\ comTime = 0
  /\ comCurrentPrice = <<>>
  /\ comPriceHistory = <<>>
  /\ comLastUpdateTime = <<>>
  /\ comPc = "idle"
  /\ comNow = 0
  /\ comOutcome = "none"

\* The accounts that call the contracts, and the price requests of the oracle.
Accounts == {"depositor", "filler"}
Identifiers == {"ETH/USD", "BTC/USD"}
MaxDexTime == 2
QueryPoints == Identifiers \X (1..MaxDexTime)

\* The two contracts after their constructors: every mapping at its zero value.
InitDex ==
  /\ verifiedPrices =
       [q \in QueryPoints |-> [isAvailable |-> FALSE, price |-> 0, verifiedTime |-> 0]]
  /\ queryIndices = [q \in QueryPoints |-> [isValid |-> FALSE, index |-> 0]]
  /\ requestedPrices = <<>>
  /\ dexTime = 1
  /\ fillRequests =
       [a \in Accounts |-> [fillRequestAmount |-> 0, withdrawalRequestTimestamp |-> 0,
                            collateral |-> 0, recipient |-> ""]]
  /\ completedFills = {}
  /\ totalOptimisticDexCollateral = 0
  /\ moAsked = {}
  /\ moPushed = {}

\* The alarms, the transaction wrapper, the commodities feed and the contracts of
\* OptimisticDepositBox.sol left idle.
InitAlarmsIdle == InitDbaIdle /\ InitWbaIdle /\ InitPtwIdle /\ InitCom /\ InitDex

\* The components a specification of one component leaves idle.
InitBotsIdle == InitKmsIdle /\ InitAlarmsIdle

InitSpecOO == InitOO /\ InitL2Idle /\ InitFeedIdle /\ InitBotsIdle

SpecOO == InitSpecOO /\ [][NextOO]_vars

\* A client constructed against an OptimisticOracle that is already in use: in
\* block 0 both keys were requested and the first one has a proposal.
HistoryRequests ==
  <<RequestPriceEvent(FirstKey, 0), RequestPriceEvent(SecondKey, 0)>>
HistoryProposals == <<ProposePriceEvent(FirstKey, "0xP1", 0)>>

\* The constructor, against a fresh chain or against the one with a history.
InitOOHistory ==
  /\ blockNumber = 0
  /\ \/ requestLog = <<>> /\ proposalLog = <<>>
     \/ requestLog = HistoryRequests /\ proposalLog = HistoryProposals
  /\ disputeLog = <<>>
  /\ dvmResolved = {}
  /\ settled = {}
  /\ unproposedPriceRequests = <<>>
  /\ undisputedProposals = <<>>
  /\ expiredProposals = <<>>
  /\ settleableDisputes = <<>>
  /\ lastUpdateTimestamp = 0
  /\ pc = "idle"
  /\ earliestBlockToQuery = 0
  /\ pendingReads = {}
  /\ requestEvents = <<>>
  /\ proposalEvents = <<>>
  /\ disputeEvents = <<>>
  /\ currentTime = 0
  /\ priceAnswers = <<>>
  /\ resolvedPrices = <<>>
  /\ disputeStates = <<>>
  /\ outcome = "none"
  /\ preUpdate = <<<<>>, <<>>, <<>>, <<>>>>
  /\ observed = {}
  /\ sourceKeys = [unproposed |-> {}, undisputed |-> {}, expired |-> {},
                   settleable |-> {}, proposed |-> {}]
  /\ prevReads = <<>>

InitSpecOOHistory == InitOOHistory /\ InitL2Idle /\ InitFeedIdle /\ InitBotsIdle

SpecOOHistory == InitSpecOOHistory /\ [][NextOO]_vars

-----------------------------------------------------------------------------
(* Properties of OptimisticOracleClient, checked under SpecOO and          *)
(* SpecOOHistory.                                                          *)

\* The last update() resolved and none is running.
UpdateSucceeded == pc = "idle" /\ outcome = "ok"
UpdateFailed == pc = "idle" /\ outcome = "failed"

\* The fetched events whose key (requester, identifier, timestamp, ancillaryData)
\* is not the key of any event of `others`.
WithoutMatch(events, others) ==
  SelectSeq(events, LAMBDA e : KeyOf(e) \notin KeysIn(others))

Callers == Proposers \cup Disputers \cup {"0xOther"}

\* C1: after a successful update() the unproposed list holds, in fetch order, one
\* entry for every fetched RequestPrice event that has no fetched ProposePrice event
\* with the same key, and no entry for any other request. (An entry carries no
\* ancillaryData: a request is represented by the entry mapped from it.)
C1_UnproposedIffNoProposal ==
  UpdateSucceeded =>
    getUnproposedPriceRequests = MapSeq(WithoutMatch(requestEvents, proposalEvents),
                                        MapRequest)

\* Both cases of C1 in one update, on two requests that map to the same entry.
C1_Witness ==
  /\ UpdateSucceeded
  /\ \E i, j \in 1..Len(requestEvents) :
       /\ KeyOf(requestEvents[i]) \in KeysIn(proposalEvents)
       /\ KeyOf(requestEvents[j]) \notin KeysIn(proposalEvents)
       /\ MapRequest(requestEvents[i]) = MapRequest(requestEvents[j])

\* C39: once an update() that succeeded has left a request out of the unproposed
\* list because a proposal with its key was fetched, no later update() that
\* succeeds lists that request as unproposed again: either the request has left the
\* lookback window, or its proposal, which is no older than the request, is fetched
\* with it.
C39_ProposedNeverUnproposedAgain ==
  UpdateSucceeded => sourceKeys.proposed \cap sourceKeys.unproposed = {}

\* A later update() whose window has moved forward fetches again a request that an
\* earlier update() left out, and another update() no longer fetches such a request.
C39_Witness ==
  /\ UpdateSucceeded
  /\ earliestBlockToQuery > 0
  /\ prevReads # <<>>
  /\ \E k \in sourceKeys.proposed :
       /\ k \in KeysIn(requestEvents)
       /\ k \in KeysIn(prevReads[1])
       /\ k \in KeysIn(prevReads[2])

\* C2: after a successful update() a fetched ProposePrice event whose key is the key
\* of a fetched DisputePrice event contributes no entry to getUndisputedProposals()
\* nor to the expired list: every entry equal to its projection stems from a fetched
\* proposal that has no dispute, and getExpiredProposals(caller) only selects from
\* the expired list.
C2_DisputedNeverListed ==
  UpdateSucceeded =>
    /\ \A i \in 1..Len(proposalEvents) :
         KeyOf(proposalEvents[i]) \in KeysIn(disputeEvents) =>
           LET entry == MapProposal(proposalEvents[i])
           IN Count(undisputedProposals, entry) + Count(expiredProposals, entry)
                = Count(MapSeq(WithoutMatch(proposalEvents, disputeEvents),
                               MapProposal), entry)
    /\ \A caller \in Callers :
         Range(getExpiredProposals(caller)) \subseteq Range(expiredProposals)

\* A disputed proposal was fetched together with an undisputed one.
C2_Witness ==
  /\ UpdateSucceeded
  /\ \E i, j \in 1..Len(proposalEvents) :
       /\ KeyOf(proposalEvents[i]) \in KeysIn(disputeEvents)
       /\ KeyOf(proposalEvents[j]) \notin KeysIn(disputeEvents)

\* C3: after a successful update() the proposals without dispute are split in two
\* disjoint lists that hold all of them: expired iff expirationTimestamp <=
\* currentTime (the time read in that update), otherwise undisputed.
C3_ExpiredSplit ==
  UpdateSucceeded =>
    LET candidates == MapSeq(WithoutMatch(proposalEvents, disputeEvents), MapProposal)
    IN /\ \A i \in 1..Len(candidates) :
            /\ candidates[i] \in Range(expiredProposals)
                 <=> candidates[i].expirationTimestamp <= currentTime
            /\ candidates[i] \in Range(getUndisputedProposals)
                 <=> candidates[i].expirationTimestamp > currentTime
       /\ Range(expiredProposals) \cap Range(getUndisputedProposals) = {}
       /\ Len(expiredProposals) + Len(getUndisputedProposals) = Len(candidates)

\* One proposal expires exactly at currentTime while another is still live.
C3_Witness ==
  /\ UpdateSucceeded
  /\ \E i \in 1..Len(expiredProposals) :
       expiredProposals[i].expirationTimestamp = currentTime
  /\ undisputedProposals # <<>>

\* C4: whatever a getter reads at a suspension point of a successful update() is
\* the four lists as they were before the update or as they are after it.
C4_GettersSeeOldOrNew ==
  UpdateSucceeded => observed \subseteq {preUpdate, Lists}

\* C5 (OptimisticOracleClient part): after a failed update() the four lists are
\* what they were before it.
C5_FailedUpdateDiscarded ==
  UpdateFailed => Lists = preUpdate

\* C10: while no update() runs, no request key has entries in two of the four lists.
C10_KeyInOneList ==
  pc = "idle" =>
    \A k \in Keys :
      Cardinality({l \in {"unproposed", "undisputed", "expired", "settleable"} :
                     k \in sourceKeys[l]}) <= 1

\* C11: after a successful update() the settleable list holds, in fetch order, one
\* entry for every fetched DisputePrice event for which Voting.getPrice returned a
\* price and for which getState answered another state than Settled, and no entry
\* for any other dispute.
C11_SettleableIffPriceAndNotSettled ==
  UpdateSucceeded =>
    settleableDisputes =
      MapSeq(Indices(Len(disputeEvents),
                     LAMBDA i : priceAnswers[i] = "price" /\ disputeStates[i] # "Settled"),
             LAMBDA i : MapDispute(disputeEvents[i]))

\* A dispute was fetched whose price is resolved and whose request is settled on
\* chain: it is left out.
C11_Witness ==
  /\ UpdateSucceeded
  /\ \E i \in 1..Len(disputeEvents) :
       priceAnswers[i] = "price" /\ disputeStates[i] = "Settled"
  /\ settleableDisputes = <<>>

\* C12: a throw of stampAncillaryData or getPrice for one dispute does not end
\* update() (no step leaves the await of the price calls by a rejection); after the
\* update resolved, the disputes whose calls threw have no entry, the other disputes
\* have the entries they have without the throwing ones, and lastUpdateTimestamp is
\* the time read in this update.
C12_PriceThrowIsNoPrice ==
  /\ [][pc = "awaitPrices" => pc' \in {"awaitPrices", "awaitStates"}]_vars
  /\ [](UpdateSucceeded =>
          LET remaining == Indices(Len(disputeEvents),
                                   LAMBDA i : priceAnswers[i] # "throws")
              listed == SelectSeq(remaining,
                          LAMBDA i : priceAnswers[i] = "price"
                                       /\ disputeStates[i] # SETTLED)
          IN /\ settleableDisputes = MapSeq(listed, LAMBDA i : MapDispute(disputeEvents[i]))
             /\ \A i \in 1..Len(disputeEvents) :
                  priceAnswers[i] = "throws" => disputeStates[i] = "none"
             /\ lastUpdateTimestamp = currentTime)

\* Of two fetched disputes the calls for the first threw and the second is listed.
C12_Witness ==
  /\ UpdateSucceeded
  /\ Len(disputeEvents) = 2
  /\ priceAnswers[1] = "throws"
  /\ priceAnswers[2] = "price"
  /\ settleableDisputes = <<MapDispute(disputeEvents[2])>>
  /\ lastUpdateTimestamp = currentTime
  /\ currentTime > 0

\* C18: when an update() resolves having read what the update() before it read
\* (the same events, currentTime, price answers and states), and that one resolved
\* too, the four lists are what they were when it began: nothing of the earlier
\* update is added to or kept beside the recomputed lists.
C18_SameReadsSameLists ==
  (UpdateSucceeded /\ prevReads = Reads) => Lists = preUpdate

\* The second of two such updates, with a settleable dispute and an unproposed
\* request in the lists.
C18_Witness ==
  /\ UpdateSucceeded
  /\ prevReads = Reads
  /\ settleableDisputes # <<>>
  /\ unproposedPriceRequests # <<>>

\* C19: while reads of line 103 are pending the lists are untouched; once update()
\* is past that await no read is pending, and the three lists assigned there are
\* given by the four results alone (the events of each kind and currentTime),
\* whatever the order in which the reads resolved.
C19_CorrelateAfterAllReads ==
  /\ pc = "awaitEvents" => Lists = preUpdate
  /\ pc \in {"awaitPrices", "awaitStates"} =>
       LET candidates == MapSeq(WithoutMatch(proposalEvents, disputeEvents), MapProposal)
       IN /\ pendingReads = {}
          /\ unproposedPriceRequests =
               MapSeq(WithoutMatch(requestEvents, proposalEvents), MapRequest)
          /\ expiredProposals =
               SelectSeq(candidates, LAMBDA x : x.expirationTimestamp <= currentTime)
          /\ undisputedProposals =
               SelectSeq(candidates, LAMBDA x : x.expirationTimestamp > currentTime)

\* The reads resolved in another order than they were issued: getCurrentTime, the
\* last one issued, resolved before the block of a fetched request was mined, so
\* before the RequestPrice read, the first one issued.
C19_Witness ==
  /\ pc = "awaitPrices"
  /\ \E i \in 1..Len(requestEvents) : requestEvents[i].blockNumber > currentTime
  /\ unproposedPriceRequests # <<>>
  /\ expiredProposals # <<>>

-----------------------------------------------------------------------------
(* Bounds of the bridge model.                                             *)

MaxL2Head == 3      \* blocks the L2 chain may mine
MaxProviders == 2   \* l2Web3s.length is 1..MaxProviders

-----------------------------------------------------------------------------
(* The BridgeDepositBox contract on L2 and the providers that serve it.    *)

BridgeDepositAddress == "0xBox"

L1Tokens == {"0xaa"}
L2Tokens == {"0xb1", "0xb2"}

\* Web3.utils.toChecksumAddress on the addresses in use (mixed-case checksum form).
toChecksumAddress(address) ==
  IF address \in {"0xaa", "0xAa"} THEN "0xAa"
  ELSE IF address \in {"0xb1", "0xB1"} THEN "0xB1"
  ELSE IF address \in {"0xb2", "0xB2"} THEN "0xB2"
  ELSE address

TransactionHash(b) == "0xT" \o ToString(b)

\* The FundsDeposited event of the deposit made in block b. depositId counts the
\* deposits made before it. Numeric fields are given as the numbers Number() yields.
FundsDepositedEvent(b, id, token) ==
  [event |-> "FundsDeposited", blockNumber |-> b, transactionHash |-> TransactionHash(b),
   address |-> BridgeDepositAddress,
   returnValues |-> [chainId |-> 10, depositId |-> id, l1Recipient |-> "0xRc",
                     l2Sender |-> "0xSd", l1Token |-> token, amount |-> "100",
                     slowRelayFeePct |-> "1", instantRelayFeePct |-> "1",
                     quoteTimestamp |-> b]]

WhitelistTokenEvent(b, l1, l2) ==
  [event |-> "WhitelistToken", blockNumber |-> b, transactionHash |-> TransactionHash(b),
   address |-> BridgeDepositAddress,
   returnValues |-> [l1Token |-> l1, l2Token |-> l2]]

OfKind(events, name) == SelectSeq(events, LAMBDA e : e.event = name)

\* The events of the chain inside a block range, oldest first.
InRange(config) ==
  SelectSeq(l2Events, LAMBDA e : config.fromBlock <= e.blockNumber
                                   /\ e.blockNumber <= config.toBlock)

\* What one provider may answer to the two getPastEvents calls of one Promise.all:
\* the events of the range it has, in order. A flaky provider may lack some.
ProviderAnswers(config) ==
  LET all == InRange(config)
  IN { SelectSeq([i \in 1..Len(all) |-> <<i, all[i]>>], LAMBDA x : x[1] \in kept)
         : kept \in SUBSET (1..Len(all)) }

AnswerEvents(answer) == MapSeq(answer, LAMBDA x : x[2])

bridgeVars == <<numProviders, startingBlockNumber, endingBlockNumber, deposits,
                whitelistedTokens, firstBlockToSearch>>
l2LocalVars == <<blockSearchConfig, fundsDepositedEvents, whitelistedTokenEvents,
                 providerIndex>>
l2CallerVars == <<l2Outcome, l2Error, l2Pre, l2Queried, l2Extra, l2Missing,
                  l2Ingested>>

\* An L2 block without events of the deposit box.
L2MineBlock ==
  /\ l2Head < MaxL2Head
  /\ l2Head' = l2Head + 1
  /\ UNCHANGED <<l2Events, bridgeVars, l2pc, l2LocalVars, l2CallerVars, notL2>>

\* BridgeDepositBox.deposit in a new block.
FundsDeposited ==
  /\ l2Head < MaxL2Head
  /\ \E token \in L1Tokens :
       l2Events' = Append(l2Events,
         FundsDepositedEvent(l2Head + 1, Len(OfKind(l2Events, "FundsDeposited")), token))
  /\ l2Head' = l2Head + 1
  /\ UNCHANGED <<bridgeVars, l2pc, l2LocalVars, l2CallerVars, notL2>>

\* BridgeDepositBox.whitelistToken in a new block.
WhitelistToken ==
  /\ l2Head < MaxL2Head
  /\ \E l1 \in L1Tokens, l2 \in L2Tokens :
       l2Events' = Append(l2Events, WhitelistTokenEvent(l2Head + 1, l1, l2))
  /\ l2Head' = l2Head + 1
  /\ UNCHANGED <<bridgeVars, l2pc, l2LocalVars, l2CallerVars, notL2>>

-----------------------------------------------------------------------------
(* InsuredBridgeL2Client: pure parts of update().                          *)

\* A JavaScript object used as a map: put one key.
Put(map, key, value) ==
  [k \in DOMAIN map \cup {key} |-> IF k = key THEN value ELSE map[k]]

\* Web3.utils.soliditySha3: null for an empty input, else a digest that is different
\* for different inputs.
soliditySha3(encoded) == IF encoded = "" THEN NULL ELSE "sha3(" \o encoded \o ")"

\* l2Web3s[0].eth.abi.encodeParameters of lines 155-168: the nine fields, in order.
encodeParameters(d) ==
  ToString(d.chainId) \o "," \o ToString(d.depositId) \o "," \o d.l1Recipient \o ","
    \o d.l2Sender \o "," \o d.amount \o "," \o d.slowRelayFeePct \o ","
    \o d.instantRelayFeePct \o "," \o ToString(d.quoteTimestamp) \o "," \o d.l1Token

generateDepositHash_Constant(depositData) == soliditySha3("deposit")

\* generateDepositHash without its throw: the hash it computes.
generateDepositHash(depositData) == soliditySha3(encodeParameters(depositData))

\* The condition of line 170 under which generateDepositHash throws.
BadDepositHash(depositHash) == depositHash = "" \/ depositHash = NULL

\* The object of lines 128-140.
DepositData(event) ==
  [chainId |-> event.returnValues.chainId,
   depositId |-> event.returnValues.depositId,
   depositHash |-> "",
   l1Recipient |-> event.returnValues.l1Recipient,
   l2Sender |-> event.returnValues.l2Sender,
   l1Token |-> event.returnValues.l1Token,
   amount |-> event.returnValues.amount,
   slowRelayFeePct |-> event.returnValues.slowRelayFeePct,
   instantRelayFeePct |-> event.returnValues.instantRelayFeePct,
   quoteTimestamp |-> event.returnValues.quoteTimestamp,
   depositContract |-> event.address]

\* The loop of lines 121-125.
RECURSIVE StoreWhitelistedTokens(_, _), StoreWhitelistedTokens_FirstWins(_, _)
StoreWhitelistedTokens_FirstWins(map, events) ==
  IF events = <<>> THEN map
  ELSE LET l1 == toChecksumAddress(Head(events).returnValues.l1Token)
       IN StoreWhitelistedTokens_FirstWins(
            IF l1 \in DOMAIN map THEN map
            ELSE Put(map, l1, toChecksumAddress(Head(events).returnValues.l2Token)),
            Tail(events))

StoreWhitelistedTokens(map, events) ==
  IF events = <<>> THEN map
  ELSE StoreWhitelistedTokens(
         Put(map, toChecksumAddress(Head(events).returnValues.l1Token),
             toChecksumAddress(Head(events).returnValues.l2Token)),
         Tail(events))

\* The loop of lines 127-143: it stops at the first event whose hash is bad, with the
\* deposits before it stored.
RECURSIVE StoreDeposits(_, _)
StoreDeposits(map, events) ==
  IF events = <<>> THEN [deposits |-> map, threw |-> FALSE]
  ELSE LET depositData == DepositData(Head(events))
           depositHash == generateDepositHash(depositData)
       IN IF BadDepositHash(depositHash)
          THEN [deposits |-> map, threw |-> TRUE]
          ELSE StoreDeposits(
                 Put(map, depositHash, [depositData EXCEPT !.depositHash = depositHash]),
                 Tail(events))

TransactionHashes(events) == {events[i].transactionHash : i \in 1..Len(events)}

MismatchError(name, hash) ==
  "Could not find " \o name \o " transaction hash " \o hash
    \o " in first l2 web3 provider"

\* events.forEach(...) of lines 103-109 and 110-116: the events the callback throws
\* for; the first one ends the forEach.
NotIncluded(events, hashes) ==
  SelectSeq(events, LAMBDA event : event.transactionHash \notin hashes)

CompareProviders_FundsOnly(funds, whitelist, fundsHashes, whitelistHashes) ==
  IF NotIncluded(funds, fundsHashes) # <<>>
  THEN MismatchError("FundsDeposited",
                     Head(NotIncluded(funds, fundsHashes)).transactionHash)
  ELSE ""

CompareProviders_Never(funds, whitelist, fundsHashes, whitelistHashes) == ""

CompareProviders_BothWays(funds, whitelist, fundsHashes, whitelistHashes) ==
  IF NotIncluded(funds, fundsHashes) # <<>>
  THEN MismatchError("FundsDeposited",
                     Head(NotIncluded(funds, fundsHashes)).transactionHash)
  ELSE IF NotIncluded(whitelist, whitelistHashes) # <<>>
  THEN MismatchError("WhitelistToken",
                     Head(NotIncluded(whitelist, whitelistHashes)).transactionHash)
  ELSE IF TransactionHashes(funds) # fundsHashes
            \/ TransactionHashes(whitelist) # whitelistHashes
  THEN "Providers do not match"
  ELSE ""

\* Lines 103-116 for the answers of one provider i >= 1: the message of the error
\* thrown, "" if none is.
CompareProviders(funds, whitelist, fundsHashes, whitelistHashes) ==
  IF NotIncluded(funds, fundsHashes) # <<>>
  THEN MismatchError("FundsDeposited",
                     Head(NotIncluded(funds, fundsHashes)).transactionHash)
  ELSE IF NotIncluded(whitelist, whitelistHashes) # <<>>
  THEN MismatchError("WhitelistToken",
                     Head(NotIncluded(whitelist, whitelistHashes)).transactionHash)
  ELSE ""

AllBlocksSearched_Never(config) == FALSE

AllBlocksSearched_OffByOne(config) == config.fromBlock > config.toBlock + 1

\* The early return of line 79.
AllBlocksSearched(config) == config.fromBlock > config.toBlock

NextBlockToSearch_SkipsOne(config) == config.toBlock + 2

\* Line 145.
NextBlockToSearch(config) == config.toBlock + 1

\* this.endingBlockNumber || ...: null and 0 are falsy.
Truthy(ending) == ending # <<>> /\ ending[1] # 0

\* The getters.
getAllDeposits == {deposits[h] : h \in DOMAIN deposits}
getAllDepositsForL1Token(l1TokenAddress) ==
  {d \in getAllDeposits : d.l1Token = l1TokenAddress}
isWhitelistedToken(l1TokenAddress) ==
  toChecksumAddress(l1TokenAddress) \in DOMAIN whitelistedTokens
getDepositByHash(depositHash) ==
  IF depositHash \in DOMAIN deposits THEN deposits[depositHash] ELSE NULL

-----------------------------------------------------------------------------
(* InsuredBridgeL2Client.update(), one action per resumption.              *)

StartingBlockNumbers == {0, 1}
EndingBlockNumbers == {<<>>, <<0>>, <<2>>}

\* update() throws: the promise rejects with this message.
L2Throws(message) ==
  /\ l2pc' = "idle"
  /\ l2Outcome' = "failed"
  /\ l2Error' = message

\* Lines 79-93 once toBlock is known: the early return, or the two reads of the
\* first provider are issued.
EnterRange(config) ==
  IF AllBlocksSearched(config)
  THEN /\ l2pc' = "idle"
       /\ l2Outcome' = "noop"
       /\ l2Error' = ""
  ELSE /\ l2pc' = "awaitEvents"
       /\ l2Outcome' = "none"
       /\ l2Error' = ""

\* Lines 119-151: both maps are written, then the watermark; a bad deposit hash
\* throws out of the second loop.
StoreAndAdvance(config, funds, whitelist) ==
  LET stored == StoreDeposits(deposits, funds)
  IN /\ whitelistedTokens' = StoreWhitelistedTokens(whitelistedTokens, whitelist)
     /\ l2Ingested' = l2Ingested \o whitelist
     /\ deposits' = stored.deposits
     /\ IF stored.threw
        THEN /\ L2Throws("Bad deposit hash")
             /\ UNCHANGED <<firstBlockToSearch, l2Queried>>
        ELSE /\ firstBlockToSearch' = NextBlockToSearch(config)
             /\ l2Queried' = Append(l2Queried, config)
             /\ l2pc' = "idle"
             /\ l2Outcome' = "ok"
             /\ l2Error' = ""

\* The events of a later provider's answer that the first provider did not return
\* for the same kind.
ExtraEvents(answerEvents, firstFunds, firstWhitelist) ==
  LET extraOf(name, first) ==
        SelectSeq(OfKind(answerEvents, name),
                  LAMBDA e : \A i \in 1..Len(first) :
                               first[i].transactionHash # e.transactionHash)
  IN extraOf("FundsDeposited", firstFunds) \o extraOf("WhitelistToken", firstWhitelist)

\* The caller starts update(); calls do not overlap. Lines 75-78: with a truthy
\* endingBlockNumber nothing is awaited before the range check.
L2UpdateStart ==
  /\ l2pc = "idle"
  /\ l2Pre' = [deposits |-> deposits, whitelistedTokens |-> whitelistedTokens,
               firstBlockToSearch |-> firstBlockToSearch]
  /\ l2Extra' = <<>>
  /\ l2Missing' = <<>>
  /\ fundsDepositedEvents' = <<>>
  /\ whitelistedTokenEvents' = <<>>
  /\ providerIndex' = 0
  /\ IF Truthy(endingBlockNumber)
     THEN LET config == [fromBlock |-> firstBlockToSearch,
                         toBlock |-> endingBlockNumber[1]]
          IN /\ blockSearchConfig' = config
             /\ EnterRange(config)
     ELSE /\ blockSearchConfig' = [fromBlock |-> firstBlockToSearch, toBlock |-> 0]
          /\ l2pc' = "awaitBlockNumber"
          /\ l2Outcome' = "none"
          /\ l2Error' = ""
  /\ UNCHANGED <<l2Head, l2Events, bridgeVars, l2Queried, l2Ingested, notL2>>

\* Line 77: the first provider answers getBlockNumber(). A provider may lag behind
\* the chain, and behind its own earlier answer.
L2BlockNumberRead ==
  /\ l2pc = "awaitBlockNumber"
  /\ \E number \in 0..l2Head :
       LET config == [blockSearchConfig EXCEPT !.toBlock = number]
       IN /\ blockSearchConfig' = config
          /\ EnterRange(config)
  /\ UNCHANGED <<l2Head, l2Events, bridgeVars, fundsDepositedEvents,
                 whitelistedTokenEvents, providerIndex, l2Pre, l2Queried, l2Extra,
                 l2Missing, l2Ingested, notL2>>

\* Line 77: getBlockNumber() rejects.
L2BlockNumberRejects ==
  /\ l2pc = "awaitBlockNumber"
  /\ L2Throws("getBlockNumber rejected")
  /\ UNCHANGED <<l2Head, l2Events, bridgeVars, l2LocalVars, l2Pre, l2Queried, l2Extra,
                 l2Missing, l2Ingested, notL2>>

\* Lines 90-98: the first provider answers both reads. With one provider the loop
\* of line 98 is empty and update() runs to its end without another await.
L2FirstProviderRead ==
  /\ l2pc = "awaitEvents"
  /\ \E answer \in ProviderAnswers(blockSearchConfig) :
       LET funds == OfKind(AnswerEvents(answer), "FundsDeposited")
           whitelist == OfKind(AnswerEvents(answer), "WhitelistToken")
       IN /\ fundsDepositedEvents' = funds
          /\ whitelistedTokenEvents' = whitelist
          /\ providerIndex' = 1
          /\ IF 1 < numProviders
             THEN /\ l2pc' = "awaitProvider"
                  /\ UNCHANGED <<deposits, whitelistedTokens, firstBlockToSearch,
                                 l2Outcome, l2Error, l2Queried, l2Ingested>>
             ELSE StoreAndAdvance(blockSearchConfig, funds, whitelist)
  /\ UNCHANGED <<l2Head, l2Events, numProviders, startingBlockNumber,
                 endingBlockNumber, blockSearchConfig, l2Pre, l2Extra, l2Missing,
                 notL2>>

\* Line 90: a read of the first provider rejects.
L2FirstProviderRejects ==
  /\ l2pc = "awaitEvents"
  /\ L2Throws("getPastEvents rejected")
  /\ UNCHANGED <<l2Head, l2Events, bridgeVars, l2LocalVars, l2Pre, l2Queried, l2Extra,
                 l2Missing, l2Ingested, notL2>>

\* Lines 99-117 for provider i = providerIndex: it answers both reads, its events
\* are compared with the first provider's; after the last provider lines 119-151 run.
L2OtherProviderRead ==
  /\ l2pc = "awaitProvider"
  /\ \E answer \in ProviderAnswers(blockSearchConfig) :
       LET funds == OfKind(AnswerEvents(answer), "FundsDeposited")
           whitelist == OfKind(AnswerEvents(answer), "WhitelistToken")
           error == CompareProviders(funds, whitelist,
                                     TransactionHashes(fundsDepositedEvents),
                                     TransactionHashes(whitelistedTokenEvents))
       IN /\ l2Extra' = ExtraEvents(AnswerEvents(answer), fundsDepositedEvents,
                                    whitelistedTokenEvents)
          /\ l2Missing' = l2Missing \o
               SelectSeq(fundsDepositedEvents \o whitelistedTokenEvents,
                         LAMBDA e : e \notin Range(AnswerEvents(answer)))
          /\ IF error # ""
             THEN /\ L2Throws(error)
                  /\ UNCHANGED <<deposits, whitelistedTokens, firstBlockToSearch,
                                 l2Queried, providerIndex, l2Ingested>>
             ELSE /\ providerIndex' = providerIndex + 1
                  /\ IF providerIndex + 1 < numProviders
                     THEN UNCHANGED <<deposits, whitelistedTokens, firstBlockToSearch,
                                      l2Queried, l2pc, l2Outcome, l2Error,
                                      l2Ingested>>
                     ELSE StoreAndAdvance(blockSearchConfig, fundsDepositedEvents,
                                          whitelistedTokenEvents)
  /\ UNCHANGED <<l2Head, l2Events, numProviders, startingBlockNumber,
                 endingBlockNumber, blockSearchConfig, fundsDepositedEvents,
                 whitelistedTokenEvents, l2Pre, notL2>>

\* Line 99: a read of provider i >= 1 rejects.
L2OtherProviderRejects ==
  /\ l2pc = "awaitProvider"
  /\ L2Throws("getPastEvents rejected")
  /\ UNCHANGED <<l2Head, l2Events, bridgeVars, l2LocalVars, l2Pre, l2Queried, l2Extra,
                 l2Missing, l2Ingested, notL2>>

\* The constructor: lines 32-52.
InitL2 ==
  /\ l2Second = IdleCall
  /\ l2Head = 0
  /\ l2Events = <<>>
  /\ numProviders \in 1..MaxProviders
  /\ startingBlockNumber \in StartingBlockNumbers
  /\ endingBlockNumber \in EndingBlockNumbers
  /\ deposits = <<>>
  /\ whitelistedTokens = <<>>
  /\ firstBlockToSearch = startingBlockNumber
  /\ l2pc = "idle"
  /\ blockSearchConfig = [fromBlock |-> 0, toBlock |-> 0]
  /\ fundsDepositedEvents = <<>>
  /\ whitelistedTokenEvents = <<>>
  /\ providerIndex = 0
  /\ l2Outcome = "none"
  /\ l2Error = ""
  /\ l2Pre = [deposits |-> <<>>, whitelistedTokens |-> <<>>,
              firstBlockToSearch |-> startingBlockNumber]
  /\ l2Queried = <<>>
  /\ l2Extra = <<>>
  /\ l2Missing = <<>>
  /\ l2Ingested = <<>>

NextL2 ==
  \/ L2MineBlock
  \/ FundsDeposited
  \/ WhitelistToken
  \/ L2UpdateStart
  \/ L2BlockNumberRead
  \/ L2BlockNumberRejects
  \/ L2FirstProviderRead
  \/ L2FirstProviderRejects
  \/ L2OtherProviderRead
  \/ L2OtherProviderRejects

InitSpecL2 == InitOO /\ InitL2 /\ InitFeedIdle /\ InitBotsIdle

SpecL2 == InitSpecL2 /\ [][NextL2]_vars

\* Both clients side by side.
Init == InitOO /\ InitL2 /\ InitFeedIdle /\ InitBotsIdle
Next == NextOO \/ NextL2
Spec == Init /\ [][Next]_vars

-----------------------------------------------------------------------------
(* Properties of InsuredBridgeL2Client, checked under SpecL2.              *)

L2UpdateSucceeded == l2pc = "idle" /\ l2Outcome = "ok"
L2UpdateFailed == l2pc = "idle" /\ l2Outcome = "failed"

Last(s) == s[Len(s)]

\* The largest toBlock among the ranges queried by completed updates.
MaxToBlock(queried) ==
  CHOOSE t \in {queried[i].toBlock : i \in 1..Len(queried)} :
    \A i \in 1..Len(queried) : queried[i].toBlock <= t

\* C6: a failed update() leaves firstBlockToSearch where it was, so that the next
\* update() queries from the fromBlock of the failed one; and the ranges queried by
\* the updates that completed are non-empty, start at startingBlockNumber, follow
\* one another without a gap, and end right below firstBlockToSearch.
C6_NoBlockSkipped ==
  /\ L2UpdateFailed =>
       /\ firstBlockToSearch = l2Pre.firstBlockToSearch
       /\ firstBlockToSearch = blockSearchConfig.fromBlock
  /\ \A i \in 1..Len(l2Queried) :
       /\ l2Queried[i].fromBlock <= l2Queried[i].toBlock
       /\ l2Queried[i].fromBlock =
            (IF i = 1 THEN startingBlockNumber ELSE l2Queried[i - 1].toBlock + 1)
  /\ firstBlockToSearch =
       (IF l2Queried = <<>> THEN startingBlockNumber ELSE Last(l2Queried).toBlock + 1)

\* An update() failed on a non-empty range after two others had completed.
C6_Witness ==
  /\ L2UpdateFailed
  /\ Len(l2Queried) >= 2
  /\ blockSearchConfig.fromBlock <= blockSearchConfig.toBlock

\* C7: firstBlockToSearch never decreases, and after every update() that completed
\* a query it is the largest toBlock ever queried plus one.
C7_WatermarkMonotone ==
  /\ [][firstBlockToSearch' >= firstBlockToSearch]_vars
  /\ [](L2UpdateSucceeded => firstBlockToSearch = MaxToBlock(l2Queried) + 1)

\* The first provider reported a head below a block that was already queried, and
\* update() returned early.
C7_Witness ==
  /\ l2pc = "idle"
  /\ l2Outcome = "noop"
  /\ endingBlockNumber = <<>>
  /\ l2Queried # <<>>
  /\ blockSearchConfig.toBlock < Last(l2Queried).toBlock

\* C8: when a provider i >= 1 answers with an event whose transaction hash the
\* first provider did not return for that kind, update() throws, and the message
\* names the hash of such an event (the first one in the order checked:
\* FundsDeposited events, then WhitelistToken events).
C8_MismatchNamesHash ==
  l2Extra # <<>> =>
    /\ L2UpdateFailed
    /\ l2Error = "Could not find " \o l2Extra[1].event \o " transaction hash "
                   \o l2Extra[1].transactionHash \o " in first l2 web3 provider"

\* A later provider returned a WhitelistToken event the first one lacks.
C8_Witness ==
  /\ L2UpdateFailed
  /\ l2Extra # <<>>
  /\ l2Extra[1].event = "WhitelistToken"

\* C9: when update() meets a provider mismatch, the deposits, the whitelist and
\* firstBlockToSearch are what they were before the call.
C9_MismatchLeavesCache ==
  l2Extra # <<>> =>
    /\ deposits = l2Pre.deposits
    /\ whitelistedTokens = l2Pre.whitelistedTokens
    /\ firstBlockToSearch = l2Pre.firstBlockToSearch

\* The mismatch came after the first provider had returned events of both kinds.
C9_Witness ==
  /\ L2UpdateFailed
  /\ l2Extra # <<>>
  /\ fundsDepositedEvents # <<>>
  /\ whitelistedTokenEvents # <<>>

\* C13: when update() finds fromBlock > toBlock it returns without error, having
\* read no answer to an event query, with the deposits, the whitelist and
\* firstBlockToSearch as they were; event queries are only issued for a range that
\* is not empty, so after an update that completed none is issued until the
\* toBlock (endingBlockNumber, or the block number the first provider reports) is
\* above the last block queried.
C13_EarlyReturnIsNoOp ==
  /\ l2Outcome = "noop" =>
       /\ l2pc = "idle"
       /\ l2Error = ""
       /\ blockSearchConfig.fromBlock > blockSearchConfig.toBlock
       /\ fundsDepositedEvents = <<>>
       /\ whitelistedTokenEvents = <<>>
       /\ providerIndex = 0
       /\ deposits = l2Pre.deposits
       /\ whitelistedTokens = l2Pre.whitelistedTokens
       /\ firstBlockToSearch = l2Pre.firstBlockToSearch
  /\ l2pc \in {"awaitEvents", "awaitProvider"} =>
       /\ blockSearchConfig.fromBlock <= blockSearchConfig.toBlock
       /\ l2Queried # <<>> => blockSearchConfig.toBlock > Last(l2Queried).toBlock

\* The update() after one that stored a deposit found the same block number and
\* returned early.
C13_Witness ==
  /\ l2pc = "idle"
  /\ l2Outcome = "noop"
  /\ endingBlockNumber = <<>>
  /\ l2Queried # <<>>
  /\ blockSearchConfig.toBlock = Last(l2Queried).toBlock
  /\ deposits # <<>>

\* C15: a deposit that getDepositByHash returns is returned with the same field
\* values after every later step, and storing again a FundsDeposited event whose
\* depositHash is in the cache leaves the cache as it is.
C15_CachedDepositKept ==
  /\ [][\A h \in DOMAIN deposits : getDepositByHash(h)' = getDepositByHash(h)]_vars
  /\ [](\A e \in Range(OfKind(l2Events, "FundsDeposited")) :
          generateDepositHash(DepositData(e)) \in DOMAIN deposits =>
            StoreDeposits(deposits, <<e>>).deposits = deposits)

\* A later update() stored a second deposit next to one cached before.
C15_Witness ==
  /\ L2UpdateSucceeded
  /\ Len(l2Queried) >= 2
  /\ l2Pre.deposits # <<>>
  /\ Cardinality(DOMAIN deposits) > Cardinality(DOMAIN l2Pre.deposits)

\* C16: update() throws a provider mismatch only for events a later provider has
\* and the first one lacks; when a later provider lacks events of the first one (and
\* no read rejected), update() succeeds, and what a successful update() stores is
\* what the events of the first provider give.
C16_FirstProviderIsCanonical ==
  /\ l2Error \notin {"", "getBlockNumber rejected", "getPastEvents rejected",
                     "Bad deposit hash"} => l2Extra # <<>>
  /\ (l2pc = "idle" /\ l2Missing # <<>> /\ l2Extra = <<>>
        /\ l2Error # "getPastEvents rejected") => l2Outcome = "ok"
  /\ L2UpdateSucceeded =>
       /\ deposits = StoreDeposits(l2Pre.deposits, fundsDepositedEvents).deposits
       /\ whitelistedTokens =
            StoreWhitelistedTokens(l2Pre.whitelistedTokens, whitelistedTokenEvents)

\* The second provider lacked events of the first one, which gave a deposit and a
\* whitelist entry.
C16_Witness ==
  /\ L2UpdateSucceeded
  /\ l2Missing # <<>>
  /\ fundsDepositedEvents # <<>>
  /\ whitelistedTokenEvents # <<>>
  /\ deposits # l2Pre.deposits
  /\ whitelistedTokens # l2Pre.whitelistedTokens

\* Addresses a caller may ask isWhitelistedToken about: an L1 token in lower and in
\* mixed case, and an address that is never whitelisted as L1 token.
AskedTokens == {"0xaa", "0xAa", "0xb1"}

\* The positions of the stored WhitelistToken events for the L1 token `address`.
IngestedFor(address) ==
  {i \in 1..Len(l2Ingested) :
     toChecksumAddress(l2Ingested[i].returnValues.l1Token) = toChecksumAddress(address)}

\* C17: the whitelist has exactly the checksummed L1 tokens of the WhitelistToken
\* events stored so far, each mapped to the checksummed L2 token of the last of its
\* events, and isWhitelistedToken(a) is true iff an event was stored for a, in any
\* letter case of a.
C17_WhitelistLastWins ==
  /\ DOMAIN whitelistedTokens =
       {toChecksumAddress(l2Ingested[i].returnValues.l1Token) : i \in 1..Len(l2Ingested)}
  /\ \A a \in DOMAIN whitelistedTokens :
       LET last == CHOOSE i \in IngestedFor(a) : \A j \in IngestedFor(a) : j <= i
       IN whitelistedTokens[a] = toChecksumAddress(l2Ingested[last].returnValues.l2Token)
  /\ \A a \in AskedTokens : isWhitelistedToken(a) <=> IngestedFor(a) # {}

\* Two events whitelisted the same L1 token with different L2 tokens.
C17_Witness ==
  /\ L2UpdateSucceeded
  /\ Len(l2Ingested) >= 2
  /\ l2Ingested[1].returnValues.l2Token # l2Ingested[2].returnValues.l2Token
  /\ isWhitelistedToken("0xaa")
  /\ ~isWhitelistedToken("0xb1")

-----------------------------------------------------------------------------
(* Two update() calls of one InsuredBridgeL2Client that overlap: a second    *)
(* call starts while the first is suspended at an await. The second call    *)
(* runs the same lines on locals of its own and on the fields of the client. *)

MaxSecondCalls == 1   \* update() calls made while another one is running

l2FirstCallVars == <<l2pc, l2LocalVars, l2Outcome, l2Error, l2Pre, l2Extra, l2Missing>>
l2ChainVars == <<l2Head, l2Events, numProviders, startingBlockNumber, endingBlockNumber>>
l2FieldVars == <<deposits, whitelistedTokens, firstBlockToSearch, l2Queried, l2Ingested>>

\* Lines 79-93 of the second call once toBlock is known.
SecondEnterRange(call, config) ==
  IF AllBlocksSearched(config)
  THEN [call EXCEPT !.blockSearchConfig = config, !.pc = "idle", !.outcome = "noop"]
  ELSE [call EXCEPT !.blockSearchConfig = config, !.pc = "awaitEvents"]

\* Lines 119-151 of the second call.
SecondStoreAndAdvance(call, funds, whitelist) ==
  LET stored == StoreDeposits(deposits, funds)
  IN /\ whitelistedTokens' = StoreWhitelistedTokens(whitelistedTokens, whitelist)
     /\ l2Ingested' = l2Ingested \o whitelist
     /\ deposits' = stored.deposits
     /\ IF stored.threw
        THEN /\ l2Second' = [call EXCEPT !.pc = "idle", !.outcome = "failed"]
             /\ UNCHANGED <<firstBlockToSearch, l2Queried>>
        ELSE /\ firstBlockToSearch' = NextBlockToSearch(call.blockSearchConfig)
             /\ l2Queried' = Append(l2Queried, call.blockSearchConfig)
             /\ l2Second' = [call EXCEPT !.pc = "idle", !.outcome = "ok"]

\* update() is called while the call before it is suspended: lines 75-78.
L2SecondStart ==
  /\ l2pc # "idle"
  /\ l2Second.pc = "idle"
  /\ l2Second.calls < MaxSecondCalls
  /\ LET call == [IdleCall EXCEPT !.calls = l2Second.calls + 1]
     IN l2Second' =
          IF Truthy(endingBlockNumber)
          THEN SecondEnterRange(call, [fromBlock |-> firstBlockToSearch,
                                       toBlock |-> endingBlockNumber[1]])
          ELSE [call EXCEPT !.pc = "awaitBlockNumber",
                            !.blockSearchConfig.fromBlock = firstBlockToSearch]
  /\ UNCHANGED <<l2ChainVars, l2FieldVars, l2FirstCallVars, notBridge>>

\* Line 77 of the second call: getBlockNumber() answers.
L2SecondBlockNumberRead ==
  /\ l2Second.pc = "awaitBlockNumber"
  /\ \E number \in 0..l2Head :
       l2Second' = SecondEnterRange(l2Second,
                     [l2Second.blockSearchConfig EXCEPT !.toBlock = number])
  /\ UNCHANGED <<l2ChainVars, l2FieldVars, l2FirstCallVars, notBridge>>

\* Lines 90-98 of the second call: the first provider answers both reads.
L2SecondFirstProviderRead ==
  /\ l2Second.pc = "awaitEvents"
  /\ \E answer \in ProviderAnswers(l2Second.blockSearchConfig) :
       LET funds == OfKind(AnswerEvents(answer), "FundsDeposited")
           whitelist == OfKind(AnswerEvents(answer), "WhitelistToken")
           read == [l2Second EXCEPT !.fundsDepositedEvents = funds,
                                    !.whitelistedTokenEvents = whitelist,
                                    !.providerIndex = 1]
       IN IF 1 < numProviders
          THEN /\ l2Second' = [read EXCEPT !.pc = "awaitProvider"]
               /\ UNCHANGED l2FieldVars
          ELSE SecondStoreAndAdvance(read, funds, whitelist)
  /\ UNCHANGED <<l2ChainVars, l2FirstCallVars, notBridge>>

\* Lines 99-117 of the second call for provider i = providerIndex.
L2SecondOtherProviderRead ==
  /\ l2Second.pc = "awaitProvider"
  /\ \E answer \in ProviderAnswers(l2Second.blockSearchConfig) :
       LET funds == OfKind(AnswerEvents(answer), "FundsDeposited")
           whitelist == OfKind(AnswerEvents(answer), "WhitelistToken")
           error == CompareProviders(funds, whitelist,
                      TransactionHashes(l2Second.fundsDepositedEvents),
                      TransactionHashes(l2Second.whitelistedTokenEvents))
           next == [l2Second EXCEPT !.providerIndex = @ + 1]
       IN IF error # ""
          THEN /\ l2Second' = [l2Second EXCEPT !.pc = "idle", !.outcome = "failed"]
               /\ UNCHANGED l2FieldVars
          ELSE IF next.providerIndex < numProviders
          THEN /\ l2Second' = next
               /\ UNCHANGED l2FieldVars
          ELSE SecondStoreAndAdvance(next, l2Second.fundsDepositedEvents,
                                     l2Second.whitelistedTokenEvents)
  /\ UNCHANGED <<l2ChainVars, l2FirstCallVars, notBridge>>

\* The await the second call is suspended at rejects: lines 77, 90 or 99.
L2SecondRejects ==
  /\ l2Second.pc # "idle"
  /\ l2Second' = [l2Second EXCEPT !.pc = "idle", !.outcome = "failed"]
  /\ UNCHANGED <<l2ChainVars, l2FieldVars, l2FirstCallVars, notBridge>>

\* The steps of the chain and of both calls. WhitelistToken events are left out:
\* the block ranges and the deposits do not depend on them.
NextL2Overlap ==
  \/ L2MineBlock
  \/ FundsDeposited
  \/ L2UpdateStart
  \/ L2BlockNumberRead
  \/ L2BlockNumberRejects
  \/ L2FirstProviderRead
  \/ L2FirstProviderRejects
  \/ L2OtherProviderRead
  \/ L2OtherProviderRejects
  \/ L2SecondStart
  \/ L2SecondBlockNumberRead
  \/ L2SecondFirstProviderRead
  \/ L2SecondOtherProviderRead
  \/ L2SecondRejects

InitSpecL2Overlap == InitOO /\ InitL2 /\ InitFeedIdle /\ InitBotsIdle

SpecL2Overlap == InitSpecL2Overlap /\ [][NextL2Overlap]_vars

\* C37: with update() calls that overlap, firstBlockToSearch never decreases: the
\* call that completes last leaves it at least where the call that completed
\* first left it.
C37_OverlapWatermarkMonotone ==
  [][(l2pc # "idle" \/ l2Second.pc # "idle")
       => firstBlockToSearch' >= firstBlockToSearch]_vars

\* The deposits of the events are in the cache.
Cached(events) ==
  \A i \in 1..Len(events) :
    generateDepositHash(DepositData(events[i])) \in DOMAIN deposits

\* C38: with update() calls that overlap, every block from startingBlockNumber to
\* firstBlockToSearch - 1 is inside the range of an event query that completed,
\* the deposits a completed query returned are in the cache, and no step removes
\* or changes a cached deposit.
C38_OverlapCoversAndKeeps ==
  /\ [](\A b \in startingBlockNumber..(firstBlockToSearch - 1) :
          \E i \in 1..Len(l2Queried) :
            l2Queried[i].fromBlock <= b /\ b <= l2Queried[i].toBlock)
  /\ [](L2UpdateSucceeded => Cached(fundsDepositedEvents))
  /\ []((l2Second.pc = "idle" /\ l2Second.outcome = "ok")
          => Cached(l2Second.fundsDepositedEvents))
  /\ [][\A h \in DOMAIN deposits : getDepositByHash(h)' = getDepositByHash(h)]_vars

\* Both calls started from the same block and completed; the one that completed
\* last had the smaller range, so that the start of the range was queried twice
\* and firstBlockToSearch went back, with deposits in the cache.
C38_Witness ==
  /\ L2UpdateSucceeded
  /\ l2Second.pc = "idle"
  /\ l2Second.outcome = "ok"
  /\ l2Second.blockSearchConfig.fromBlock = blockSearchConfig.fromBlock
  /\ l2Second.blockSearchConfig.toBlock # blockSearchConfig.toBlock
  /\ firstBlockToSearch < MaxToBlock(l2Queried) + 1
  /\ Cardinality(DOMAIN deposits) >= 2

-----------------------------------------------------------------------------
(* The price feeds with a retained history: TwelveDataApiPriceFeed,        *)
(* MarketStackPriceFeed and HmLandRegistryPriceFeed. Their update() differ *)
(* in the shape of the response and in MarketStack sorting the periods.    *)
(* Model time counts periods of the API; the datetime texts of the API are *)
(* those of periods 1..3.                                                  *)

MaxFeedTime == 4            \* how far the clock behind getTime() runs
MaxFetches == 3             \* getJson requests one behaviour may send
MinTimeBetweenUpdates == 2  \* the minTimeBetweenUpdates argument of the constructor
PriceFeedDecimals == 3      \* the priceFeedDecimals argument of the constructor

FeedKinds == {"TwelveDataApi", "MarketStack", "HmLandRegistry"}

DateTimes == {"1970-01-01 00:00:01", "1970-01-01 00:00:02", "1970-01-01 00:00:03"}
PriceTexts == {"1.5", "2"}

\* moment(inputDateTime, format).unix() on the texts in use.
dateTimeToSecond(inputDateTime) ==
  IF inputDateTime = "1970-01-01 00:00:01" THEN 1
  ELSE IF inputDateTime = "1970-01-01 00:00:02" THEN 2
  ELSE 3

\* toBN(parseFixed(number.toString().substring(0, priceFeedDecimals),
\* priceFeedDecimals)) on the texts in use, for PriceFeedDecimals = 3.
convertPriceFeedDecimals(number) == IF number = "1.5" THEN 1500 ELSE 2000

\* One element of values / data / results.bindings.
DataPoints == [date : DateTimes, price : PriceTexts]

\* What networker.getJson may resolve with: a body without the list, or a body
\* with a list of up to two elements in any order.
JsonResponses ==
  {[hasList |-> FALSE, list |-> <<>>]}
    \cup {[hasList |-> TRUE, list |-> l] :
            l \in {<<>>} \cup {<<a>> : a \in DataPoints}
                        \cup {<<a, b>> : a \in DataPoints, b \in DataPoints}}

\* Step 3 of update(): the response has no data and update() throws.
NoData(response) == ~response.hasList \/ Len(response.list) = 0

\* Array.prototype.sort((a, b) => a.date - b.date): stable, oldest first.
RECURSIVE SortByDate(_)
SortByDate(periods) ==
  IF periods = <<>> THEN <<>>
  ELSE LET last == periods[Len(periods)]
           front == SortByDate(SubSeq(periods, 1, Len(periods) - 1))
       IN SelectSeq(front, LAMBDA x : x.date <= last.date) \o <<last>>
            \o SelectSeq(front, LAMBDA x : x.date > last.date)

\* Step 4 of update(): the periods parsed from the response. The price is
\* closePrice (TwelveDataApi), openPrice (MarketStack) or value (HmLandRegistry).
newHistoricalPricePeriods(kind, response) ==
  LET mapped == MapSeq(response.list,
                       LAMBDA dailyData :
                         [date |-> dateTimeToSecond(dailyData.date),
                          price |-> convertPriceFeedDecimals(dailyData.price)])
  IN IF kind = "MarketStack" THEN SortByDate(mapped) ELSE mapped

TooRecent_Inclusive(lastUpdateTime, minTime, now) ==
  lastUpdateTime # <<>> /\ lastUpdateTime[1] + minTime >= now

\* The condition of the early return of update().
TooRecent(lastUpdateTime, minTime, now) ==
  lastUpdateTime # <<>> /\ lastUpdateTime[1] + minTime > now

\* The fields of the feed that update() writes.
FeedFields == [currentPrice |-> feedCurrentPrice, priceHistory |-> feedPriceHistory,
               lastUpdateTime |-> feedLastUpdateTime]

getCurrentPrice == feedCurrentPrice

Threw(message) == [threw |-> TRUE, message |-> message, price |-> <<>>]
Returned(price) == [threw |-> FALSE, message |-> "", price |-> price]

\* The loop of getHistoricalPrice over priceHistory: the first period with a date
\* that is not 0.
FirstPrice(priceHistory) ==
  LET valid == {i \in 1..Len(priceHistory) : priceHistory[i].date # 0}
  IN IF valid = {} THEN <<>>
     ELSE <<priceHistory[CHOOSE i \in valid : \A j \in valid : i <= j]>>

BeforeFirstPeriod_Never(time, firstPrice) == FALSE

\* time < firstPrice.date
BeforeFirstPeriod(time, firstPrice) == time < firstPrice.date

\* Every class taking the period found by find, as MarketStackPriceFeed does.
MatchedPeriod_Following(kind, priceHistory, time) ==
  LET later == {i \in 1..Len(priceHistory) : time < priceHistory[i].date}
  IN IF later = {} THEN <<>>
     ELSE <<priceHistory[CHOOSE i \in later : \A j \in later : i <= j]>>

\* find / findIndex of getHistoricalPrice: the first period with time < date.
\* MarketStack takes that period as the match, the other two classes take the
\* period before it, and no period when it is the first one.
MatchedPeriod(kind, priceHistory, time) ==
  LET later == {i \in 1..Len(priceHistory) : time < priceHistory[i].date}
      matchedIndex == CHOOSE i \in later : \A j \in later : i <= j
  IN IF later = {} THEN <<>>
     ELSE IF kind = "MarketStack" THEN <<priceHistory[matchedIndex]>>
     ELSE IF matchedIndex > 1 THEN <<priceHistory[matchedIndex - 1]>>
     ELSE <<>>

\* getHistoricalPrice(time). lastUpdateTime is null or a number, never undefined:
\* the first throw of the function is not reached.
getHistoricalPrice(kind, time) ==
  LET firstPrice == FirstPrice(feedPriceHistory)
      match == MatchedPeriod(kind, feedPriceHistory, time)
  IN IF firstPrice = <<>> THEN Threw("no valid price periods")
     ELSE IF BeforeFirstPeriod(time, firstPrice[1])
       THEN Threw("time is before firstPricePeriod")
     ELSE IF match = <<>>
       THEN IF feedCurrentPrice = <<>> THEN Threw("currentPrice is null")
            ELSE Returned(feedCurrentPrice)
     ELSE Returned(<<match[1].price>>)

\* The record of the request in flight, closed with how it ended.
Answered(fetches, how) ==
  [fetches EXCEPT ![Len(fetches)] = [@ EXCEPT !.outcome = how]]

LastUpdateTimeAfterThrow_Stamped(lastUpdateTime, now) == <<now>>

\* lastUpdateTime after a getJson that rejected or a response that failed the
\* check of step 3: the throw comes before the stores of step 5.
LastUpdateTimeAfterThrow(lastUpdateTime, now) == lastUpdateTime

feedLocalVars == <<feedPc, feedNow>>
feedFieldVars == <<feedCurrentPrice, feedPriceHistory, feedLastUpdateTime>>

\* Time passes.
FeedTick ==
  /\ feedAsked' = <<>>
  /\ feedTime < MaxFeedTime
  /\ feedTime' = feedTime + 1
  /\ UNCHANGED <<feedKind, feedFieldVars, feedLocalVars, feedOutcome, feedPre,
                 feedFetches, notFeed>>

\* A caller asks for a historical price, between the steps of update() too.
FeedGetHistoricalPrice ==
  /\ \E time \in 0..MaxFeedTime :
       feedAsked' = <<[time |-> time, result |-> getHistoricalPrice(feedKind, time)]>>
  /\ UNCHANGED <<feedKind, feedTime, feedFieldVars, feedLocalVars, feedOutcome,
                 feedPre, feedFetches, notFeed>>

\* The caller starts update(); calls do not overlap. It suspends at getTime().
FeedUpdateStart ==
  /\ feedAsked' = <<>>
  /\ feedPc = "idle"
  /\ Len(feedFetches) < MaxFetches
  /\ feedPc' = "awaitTime"
  /\ feedNow' = 0
  /\ feedOutcome' = "none"
  /\ feedPre' = FeedFields
  /\ UNCHANGED <<feedKind, feedTime, feedFieldVars, feedFetches, notFeed>>

\* getTime() resolves: the early return, or the request is sent.
FeedTimeRead ==
  /\ feedAsked' = <<>>
  /\ feedPc = "awaitTime"
  /\ feedNow' = feedTime
  /\ IF TooRecent(feedLastUpdateTime, MinTimeBetweenUpdates, feedTime)
     THEN /\ feedPc' = "idle"
          /\ feedOutcome' = "skipped"
          /\ UNCHANGED feedFetches
     ELSE /\ feedPc' = "awaitJson"
          /\ feedFetches' = Append(feedFetches,
               [time |-> feedTime, lastUpdateTime |-> feedLastUpdateTime,
                outcome |-> "pending"])
          /\ UNCHANGED feedOutcome
  /\ UNCHANGED <<feedKind, feedTime, feedFieldVars, feedPre, notFeed>>

\* getTime() rejects.
FeedTimeRejects ==
  /\ feedAsked' = <<>>
  /\ feedPc = "awaitTime"
  /\ feedPc' = "idle"
  /\ feedOutcome' = "failed"
  /\ UNCHANGED <<feedKind, feedTime, feedFieldVars, feedNow, feedPre, feedFetches,
                 notFeed>>

\* networker.getJson resolves: steps 3 to 5 of update().
FeedJsonRead ==
  /\ feedAsked' = <<>>
  /\ feedPc = "awaitJson"
  /\ \E historyResponse \in JsonResponses :
       IF NoData(historyResponse)
       THEN /\ feedOutcome' = "failed"
            /\ feedFetches' = Answered(feedFetches, "failed")
            /\ feedLastUpdateTime' = LastUpdateTimeAfterThrow(feedLastUpdateTime, feedNow)
            /\ UNCHANGED <<feedCurrentPrice, feedPriceHistory>>
       ELSE LET periods == newHistoricalPricePeriods(feedKind, historyResponse)
            IN /\ feedCurrentPrice' = <<periods[Len(periods)].price>>
               /\ feedPriceHistory' = periods
               /\ feedLastUpdateTime' = <<feedNow>>
               /\ feedOutcome' = "ok"
               /\ feedFetches' = Answered(feedFetches, "ok")
  /\ feedPc' = "idle"
  /\ UNCHANGED <<feedKind, feedTime, feedNow, feedPre, notFeed>>

\* networker.getJson rejects.
FeedJsonRejects ==
  /\ feedAsked' = <<>>
  /\ feedPc = "awaitJson"
  /\ feedPc' = "idle"
  /\ feedOutcome' = "failed"
  /\ feedFetches' = Answered(feedFetches, "failed")
  /\ feedLastUpdateTime' = LastUpdateTimeAfterThrow(feedLastUpdateTime, feedNow)
  /\ UNCHANGED <<feedKind, feedTime, feedCurrentPrice, feedPriceHistory, feedNow,
                 feedPre, notFeed>>

\* The constructor of one of the three classes.
InitFeed ==
  /\ feedKind \in FeedKinds
  /\ feedTime = 0
  /\ feedCurrentPrice = <<>>
  /\ feedPriceHistory = <<>>
  /\ feedLastUpdateTime = <<>>
  /\ feedPc = "idle"
  /\ feedNow = 0
  /\ feedOutcome = "none"
  /\ feedPre = [currentPrice |-> <<>>, priceHistory |-> <<>>, lastUpdateTime |-> <<>>]
  /\ feedFetches = <<>>
  /\ feedAsked = <<>>

NextFeed ==
  \/ FeedTick
  \/ FeedUpdateStart
  \/ FeedTimeRead
  \/ FeedTimeRejects
  \/ FeedJsonRead
  \/ FeedJsonRejects
  \/ FeedGetHistoricalPrice

InitSpecFeed == InitOO /\ InitL2Idle /\ InitFeed /\ InitBotsIdle

SpecFeed == InitSpecFeed /\ [][NextFeed]_vars

-----------------------------------------------------------------------------
(* Properties of the price feeds, checked under SpecFeed.                  *)

\* C14: on a feed on which an update has completed, an update() that reads a
\* currentTime with lastUpdateTime + minTimeBetweenUpdates > currentTime returns
\* without a request and with currentPrice, priceHistory and lastUpdateTime as they
\* were, and an update() that reads currentTime >= lastUpdateTime +
\* minTimeBetweenUpdates sends the request.
C14_ThrottledUpdateIsNoOp ==
  /\ feedOutcome = "skipped" =>
       /\ feedLastUpdateTime # <<>>
       /\ feedLastUpdateTime[1] + MinTimeBetweenUpdates > feedNow
       /\ FeedFields = feedPre
  /\ ((feedPc = "awaitJson" \/ feedOutcome \in {"ok", "skipped"})
        /\ feedPre.lastUpdateTime # <<>>) =>
       LET sent == feedFetches # <<>> /\ Last(feedFetches).time = feedNow
                     /\ Last(feedFetches).lastUpdateTime = feedPre.lastUpdateTime
       IN IF feedPre.lastUpdateTime[1] + MinTimeBetweenUpdates > feedNow
          THEN feedOutcome = "skipped" /\ ~sent
          ELSE feedOutcome # "skipped" /\ sent

\* After a fetch made exactly minTimeBetweenUpdates after the update before it, an
\* update() one period short of the interval was skipped.
C14_Witness ==
  /\ feedOutcome = "skipped"
  /\ feedNow = feedLastUpdateTime[1] + MinTimeBetweenUpdates - 1
  /\ feedPriceHistory # <<>>
  /\ \E i \in 1..Len(feedFetches) :
       /\ feedFetches[i].lastUpdateTime # <<>>
       /\ feedFetches[i].time = feedFetches[i].lastUpdateTime[1] + MinTimeBetweenUpdates

C33_FailedFetchKeepsFields ==
  /\ (feedFetches # <<>> /\ Last(feedFetches).outcome = "failed") =>
       /\ feedOutcome # "skipped"
       /\ feedOutcome = "failed" => FeedFields = feedPre
       /\ ~TooRecent(feedLastUpdateTime, MinTimeBetweenUpdates, feedTime)
  /\ \A i \in 1..(Len(feedFetches) - 1) :
       feedFetches[i].outcome = "failed" =>
         feedFetches[i + 1].lastUpdateTime = feedFetches[i].lastUpdateTime

\* On a feed with a history, a request failed, the call after it sent the request
\* again at the same feed time, and that one failed too.
C33_Witness ==
  /\ Len(feedFetches) >= 2
  /\ feedPriceHistory # <<>>
  /\ feedOutcome = "failed"
  /\ feedFetches[Len(feedFetches) - 1].outcome = "failed"
  /\ Last(feedFetches).outcome = "failed"
  /\ Last(feedFetches).time = feedFetches[Len(feedFetches) - 1].time
  /\ FeedFields = feedPre

\* C34: whether the calls of update() succeed or fail, any two requests sent by
\* update() are at least minTimeBetweenUpdates apart in feed time.
C34_FetchesSpaced ==
  \A i \in 1..Len(feedFetches) : \A j \in 1..Len(feedFetches) :
    i < j => feedFetches[j].time - feedFetches[i].time >= MinTimeBetweenUpdates

\* The periods of a history are ordered oldest to newest.
Ordered(priceHistory) ==
  \A i \in 1..(Len(priceHistory) - 1) : priceHistory[i].date <= priceHistory[i + 1].date

\* The latest period of an ordered history whose date is at or before time.
LatestAtOrBefore(priceHistory, time) ==
  LET prior == {i \in 1..Len(priceHistory) : priceHistory[i].date <= time}
  IN priceHistory[CHOOSE i \in prior : \A j \in prior : j <= i]

\* C31: on a MarketStackPriceFeed with a completed update, getHistoricalPrice(time)
\* for a time at or after the first period returns the price of the latest period
\* whose date is at or before time (the current price from the last period on).
C31_MarketStackNearestPrior ==
  (/\ feedAsked # <<>>
   /\ feedKind = "MarketStack"
   /\ feedLastUpdateTime # <<>>
   /\ feedAsked[1].time >= feedPriceHistory[1].date) =>
    /\ feedAsked[1].result =
         Returned(<<LatestAtOrBefore(feedPriceHistory, feedAsked[1].time).price>>)
    /\ feedAsked[1].time >= Last(feedPriceHistory).date =>
         feedAsked[1].result = Returned(feedCurrentPrice)

\* C32: on a TwelveDataApiPriceFeed or HmLandRegistryPriceFeed with a completed
\* update and a history ordered oldest to newest, getHistoricalPrice(time) for a
\* time at or after the first period returns the price of the latest period whose
\* date is at or before time, and the current price, which is the price of the
\* last period, for a time at or after the date of the last period.
C32_NearestPriorPeriod ==
  (/\ feedAsked # <<>>
   /\ feedKind \in {"TwelveDataApi", "HmLandRegistry"}
   /\ feedLastUpdateTime # <<>>
   /\ Ordered(feedPriceHistory)
   /\ feedAsked[1].time >= feedPriceHistory[1].date) =>
    /\ feedAsked[1].result =
         Returned(<<LatestAtOrBefore(feedPriceHistory, feedAsked[1].time).price>>)
    /\ feedAsked[1].time >= Last(feedPriceHistory).date =>
         /\ feedAsked[1].result = Returned(feedCurrentPrice)
         /\ feedCurrentPrice = <<Last(feedPriceHistory).price>>

\* A call for a time between two periods of different prices returned the price of
\* the earlier one.
C32_Witness ==
  /\ feedAsked # <<>>
  /\ feedKind \in {"TwelveDataApi", "HmLandRegistry"}
  /\ Len(feedPriceHistory) = 2
  /\ feedPriceHistory[1].date < feedPriceHistory[2].date
  /\ feedPriceHistory[1].price # feedPriceHistory[2].price
  /\ feedAsked[1].time >= feedPriceHistory[1].date
  /\ feedAsked[1].time < feedPriceHistory[2].date
  /\ feedAsked[1].result = Returned(<<feedPriceHistory[1].price>>)

-----------------------------------------------------------------------------
(* sendTxWithKMS of aws-kms-signer.ts: the nonce of the sending account, the *)
(* simulation, the unsigned transaction, the signature of the key service   *)
(* and the broadcast. Each await of the function is a step.                 *)

MaxInitialConfirmed == 5
MaxTxCount == 8

GasLimitBufferPercent == 125

\* What the caller may put in a field of transactionConfig.
FeeValues == {<<>>, <<3>>}
NonceArgs == {<<>>, <<0>>}
TransactionConfigs ==
  [maxFeePerGas : FeeValues, maxPriorityFeePerGas : FeeValues, gasPrice : FeeValues,
   nonce : NonceArgs]

\* What the simulation of lines 87-88 may answer.
ReturnValues == {"returned"}
GasEstimates == {4, 5}

\* web3.eth.getTransactionCount(account, defaultBlock): the mined transactions of
\* the account, with "pending" those of the pool as well.
getTransactionCount(defaultBlock) ==
  IF defaultBlock = "pending" THEN kmsConfirmed + kmsPending ELSE kmsConfirmed

\* TransactionUtils: the account has transactions that are not mined.
accountHasPendingTransactions ==
  getTransactionCount("pending") # getTransactionCount("latest")

\* TransactionUtils: the count that includes the pool.
getPendingTransactionCount == getTransactionCount("pending")

NonceCall_AlwaysLatest(hasPending) == "getTransactionCount"

\* Lines 77-83: the call that gives the nonce.
NonceCall(hasPending) ==
  IF hasPending THEN "getPendingTransactionCount" ELSE "getTransactionCount"

\* The answer of that call.
NonceAnswer(call) ==
  IF call = "getPendingTransactionCount"
  THEN getPendingTransactionCount
  ELSE getTransactionCount("latest")

\* Lines 99-111. maxFeePerGas is read with .toString(): config.maxFeePerGas is
\* defined where this is applied.
TxParams(config, estimatedGas) ==
  [gasLimit |-> (estimatedGas * GasLimitBufferPercent) \div 100,
   maxFeePerGas |-> <<config.maxFeePerGas[1] * 2>>,
   maxPriorityFeePerGas |-> config.maxPriorityFeePerGas,
   gasPrice |-> config.gasPrice,
   nonce |-> config.nonce,
   type |-> 2,
   chainId |-> 5]

NoKmsError == [at |-> "none", type |-> <<>>]

castedError_Untagged(failed) == [at |-> failed, type |-> <<>>]

\* Lines 91-95: the error of the simulation is given type = "call" and thrown.
castedError(failed) == [at |-> failed, type |-> <<"call">>]

Propagated_Tagged(failed) == [at |-> failed, type |-> <<"call">>]

\* An await outside the try of lines 86-95 rejects: nothing catches the error, the
\* caller gets it as it is.
Propagated(failed) == [at |-> failed, type |-> <<>>]

kmsCallVars == <<kmsPc, transactionConfig, kmsHasPending, returnValue, txParams,
                 kmsPooled, kmsOutcome, kmsError, kmsSeen, kmsRequests>>

\* Another sender puts a transaction of the account in the pool.
KmsSubmitOther ==
  /\ kmsConfirmed + kmsPending < MaxTxCount - 1
  /\ kmsPending' = kmsPending + 1
  /\ kmsInterfered' = (kmsInterfered \/ kmsPc # "idle")
  /\ UNCHANGED <<kmsConfirmed, kmsCallVars, notKms>>

\* The oldest transaction of the pool is mined.
KmsMine ==
  /\ kmsPending > 0
  /\ kmsConfirmed' = kmsConfirmed + 1
  /\ kmsPending' = kmsPending - 1
  /\ UNCHANGED <<kmsCallVars, kmsInterfered, notKms>>

\* The caller calls sendTxWithKMS; calls do not overlap. The call runs up to the
\* await of line 77.
KmsSendStart ==
  /\ kmsPc = "idle"
  /\ kmsConfirmed + kmsPending < MaxTxCount
  /\ \E config \in TransactionConfigs : transactionConfig' = config
  /\ kmsPc' = "awaitHasPending"
  /\ kmsHasPending' = FALSE
  /\ returnValue' = <<>>
  /\ txParams' = <<>>
  /\ kmsPooled' = FALSE
  /\ kmsOutcome' = "none"
  /\ kmsError' = NoKmsError
  /\ kmsSeen' = [confirmed |-> 0, pending |-> 0]
  /\ kmsInterfered' = FALSE
  /\ kmsRequests' = <<"accountHasPendingTransactions">>
  /\ UNCHANGED <<kmsConfirmed, kmsPending, notKms>>

\* Line 77 resolves; the call of line 78 or of line 82 is made.
KmsHasPendingRead ==
  /\ kmsPc = "awaitHasPending"
  /\ kmsHasPending' = accountHasPendingTransactions
  /\ kmsRequests' = Append(kmsRequests, NonceCall(accountHasPendingTransactions))
  /\ kmsPc' = "awaitNonce"
  /\ UNCHANGED <<kmsConfirmed, kmsPending, transactionConfig, returnValue, txParams,
                 kmsPooled, kmsOutcome, kmsError, kmsSeen, kmsInterfered, notKms>>

\* Line 78 or line 82 resolves; the two calls of lines 87-88 are made.
KmsNonceRead ==
  /\ kmsPc = "awaitNonce"
  /\ transactionConfig' =
       [transactionConfig EXCEPT !.nonce = <<NonceAnswer(kmsRequests[2])>>]
  /\ kmsSeen' = [confirmed |-> kmsConfirmed, pending |-> kmsPending]
  /\ kmsRequests' = kmsRequests \o <<"call", "estimateGas">>
  /\ kmsPc' = "awaitSimulation"
  /\ UNCHANGED <<kmsConfirmed, kmsPending, kmsHasPending, returnValue, txParams,
                 kmsPooled, kmsOutcome, kmsError, kmsInterfered, notKms>>

\* The read of line 77, 78 or 82 rejects: so does sendTxWithKMS.
KmsReadRejects ==
  /\ kmsPc \in {"awaitHasPending", "awaitNonce"}
  /\ kmsPc' = "idle"
  /\ kmsOutcome' = "failed"
  /\ kmsError' = Propagated(kmsRequests[Len(kmsRequests)])
  /\ UNCHANGED <<kmsConfirmed, kmsPending, transactionConfig, kmsHasPending,
                 returnValue, txParams, kmsPooled, kmsSeen, kmsInterfered,
                 kmsRequests, notKms>>

\* Promise.all of lines 86-89 resolves; lines 99-114 up to the await of _signDigest.
\* Line 102 throws a TypeError on an undefined maxFeePerGas.
KmsSimulated ==
  /\ kmsPc = "awaitSimulation"
  /\ \E value \in ReturnValues, estimatedGas \in GasEstimates :
       /\ returnValue' = <<value>>
       /\ IF transactionConfig.maxFeePerGas = <<>>
          THEN /\ kmsPc' = "idle"
               /\ kmsOutcome' = "failed"
               /\ kmsError' = Propagated("txParams")
               /\ UNCHANGED <<txParams, kmsRequests>>
          ELSE /\ txParams' = <<TxParams(transactionConfig, estimatedGas)>>
               /\ kmsRequests' = Append(kmsRequests, "_signDigest")
               /\ kmsPc' = "awaitSign"
               /\ UNCHANGED <<kmsOutcome, kmsError>>
  /\ UNCHANGED <<kmsConfirmed, kmsPending, transactionConfig, kmsHasPending,
                 kmsPooled, kmsSeen, kmsInterfered, notKms>>

\* transaction.call or transaction.estimateGas rejects: lines 91-95.
KmsSimulationFails ==
  /\ kmsPc = "awaitSimulation"
  /\ \E failed \in {"call", "estimateGas"} :
       kmsError' = castedError(failed)
  /\ kmsPc' = "idle"
  /\ kmsOutcome' = "failed"
  /\ UNCHANGED <<kmsConfirmed, kmsPending, transactionConfig, kmsHasPending,
                 returnValue, txParams, kmsPooled, kmsSeen, kmsInterfered,
                 kmsRequests, notKms>>

\* _signDigest resolves; line 118 sends the signed transaction. The node takes it
\* into its pool when its nonce is the next one of the account.
KmsSigned ==
  /\ kmsPc = "awaitSign"
  /\ kmsRequests' = Append(kmsRequests, "sendSignedTransaction")
  /\ kmsPc' = "awaitSend"
  /\ IF txParams[1].nonce = <<getTransactionCount("pending")>>
     THEN /\ kmsPooled' = TRUE
          /\ kmsPending' = kmsPending + 1
     ELSE UNCHANGED <<kmsPooled, kmsPending>>
  /\ UNCHANGED <<kmsConfirmed, transactionConfig, kmsHasPending, returnValue,
                 txParams, kmsOutcome, kmsError, kmsSeen, kmsInterfered, notKms>>

\* _signDigest rejects.
KmsSignFails ==
  /\ kmsPc = "awaitSign"
  /\ kmsPc' = "idle"
  /\ kmsOutcome' = "failed"
  /\ kmsError' = Propagated("_signDigest")
  /\ UNCHANGED <<kmsConfirmed, kmsPending, transactionConfig, kmsHasPending,
                 returnValue, txParams, kmsPooled, kmsSeen, kmsInterfered,
                 kmsRequests, notKms>>

\* The transaction is mined and sendSignedTransaction resolves with the receipt:
\* lines 118-121.
KmsReceipt ==
  /\ kmsPc = "awaitSend"
  /\ kmsPooled
  /\ txParams[1].nonce[1] < kmsConfirmed
  /\ kmsPc' = "idle"
  /\ kmsOutcome' = "ok"
  /\ UNCHANGED <<kmsConfirmed, kmsPending, transactionConfig, kmsHasPending,
                 returnValue, txParams, kmsPooled, kmsError, kmsSeen, kmsInterfered,
                 kmsRequests, notKms>>

\* sendSignedTransaction rejects: the node refused the transaction, or no receipt
\* came in time.
KmsSendRejects ==
  /\ kmsPc = "awaitSend"
  /\ kmsPc' = "idle"
  /\ kmsOutcome' = "failed"
  /\ kmsError' = Propagated("sendSignedTransaction")
  /\ UNCHANGED <<kmsConfirmed, kmsPending, transactionConfig, kmsHasPending,
                 returnValue, txParams, kmsPooled, kmsSeen, kmsInterfered,
                 kmsRequests, notKms>>

\* An account with some mined transactions.
InitKms ==
  /\ kmsConfirmed \in 0..MaxInitialConfirmed
  /\ kmsPending = 0
  /\ kmsPc = "idle"
  /\ transactionConfig = [maxFeePerGas |-> <<>>, maxPriorityFeePerGas |-> <<>>,
                          gasPrice |-> <<>>, nonce |-> <<>>]
  /\ kmsHasPending = FALSE
  /\ returnValue = <<>>
  /\ txParams = <<>>
  /\ kmsPooled = FALSE
  /\ kmsOutcome = "none"
  /\ kmsError = NoKmsError
  /\ kmsSeen = [confirmed |-> 0, pending |-> 0]
  /\ kmsInterfered = FALSE
  /\ kmsRequests = <<>>

NextKms ==
  \/ KmsSubmitOther
  \/ KmsMine
  \/ KmsSendStart
  \/ KmsHasPendingRead
  \/ KmsNonceRead
  \/ KmsReadRejects
  \/ KmsSimulated
  \/ KmsSimulationFails
  \/ KmsSigned
  \/ KmsSignFails
  \/ KmsReceipt
  \/ KmsSendRejects

InitSpecKms == InitOO /\ InitL2Idle /\ InitFeedIdle /\ InitKms /\ InitAlarmsIdle

SpecKms == InitSpecKms /\ [][NextKms]_vars

-----------------------------------------------------------------------------
(* Properties of sendTxWithKMS, checked under SpecKms.                      *)

\* The read of line 78 or of line 82 has resolved in the call.
NonceSelected == "call" \in Range(kmsRequests)

\* C20: once sendTxWithKMS has its nonce, it is the pending transaction count of
\* the account (mined plus pool) if accountHasPendingTransactions answered true,
\* and the mined count if it answered false, each as the account was when the
\* count was read; with 5 mined and 2 in the pool the nonce is 7; and when no
\* other sender used the account during the call the nonce chains behind every
\* transaction of the account.
C20_NonceFromPendingCount ==
  NonceSelected =>
    /\ kmsRequests[2] = (IF kmsHasPending THEN "getPendingTransactionCount"
                                          ELSE "getTransactionCount")
    /\ transactionConfig.nonce =
         <<IF kmsHasPending THEN kmsSeen.confirmed + kmsSeen.pending
                            ELSE kmsSeen.confirmed>>
    /\ (kmsHasPending /\ kmsSeen = [confirmed |-> 5, pending |-> 2]) =>
         transactionConfig.nonce = <<7>>
    /\ ~kmsInterfered =>
         transactionConfig.nonce = <<kmsSeen.confirmed + kmsSeen.pending>>

\* The scenario: 2 transactions in the pool, 5 mined, and the nonce is 7.
C20_Witness ==
  /\ NonceSelected
  /\ kmsHasPending
  /\ ~kmsInterfered
  /\ kmsSeen = [confirmed |-> 5, pending |-> 2]
  /\ transactionConfig.nonce = <<7>>

\* C21: a call that rejected because transaction.call or transaction.estimateGas
\* failed rejected with type = "call" and issued neither the signing request nor
\* the broadcast; the signing request is issued only once both simulation calls
\* have succeeded, and the broadcast only once the signature is there.
C21_SimulateBeforeSigning ==
  /\ kmsError.at \in {"call", "estimateGas"} =>
       /\ kmsPc = "idle"
       /\ kmsOutcome = "failed"
       /\ kmsError.type = <<"call">>
       /\ "_signDigest" \notin Range(kmsRequests)
       /\ "sendSignedTransaction" \notin Range(kmsRequests)
  /\ "_signDigest" \in Range(kmsRequests) =>
       /\ returnValue # <<>>
       /\ txParams # <<>>
       /\ kmsError.at \notin {"call", "estimateGas"}
  /\ "sendSignedTransaction" \in Range(kmsRequests) =>
       /\ "_signDigest" \in Range(kmsRequests)
       /\ kmsPc # "awaitSign"
       /\ kmsError.at # "_signDigest"

\* The gas estimate failed in a call that had its nonce.
C21_Witness ==
  /\ kmsOutcome = "failed"
  /\ kmsError = [at |-> "estimateGas", type |-> <<"call">>]
  /\ NonceSelected

\* C22: after the simulation, a call given maxFeePerGas and maxPriorityFeePerGas
\* has built a type 2 transaction with twice the maxFeePerGas; a call given only
\* gasPrice has built a legacy transaction with that gasPrice; a call given none
\* of them has failed without a signing request or a broadcast.
C22_FeeSelection ==
  (returnValue # <<>>) =>
    LET both == /\ transactionConfig.maxFeePerGas # <<>>
                /\ transactionConfig.maxPriorityFeePerGas # <<>>
        onlyLegacy == /\ transactionConfig.maxFeePerGas = <<>>
                      /\ transactionConfig.maxPriorityFeePerGas = <<>>
                      /\ transactionConfig.gasPrice # <<>>
        neither == /\ transactionConfig.maxFeePerGas = <<>>
                   /\ transactionConfig.maxPriorityFeePerGas = <<>>
                   /\ transactionConfig.gasPrice = <<>>
    IN /\ both =>
            /\ txParams # <<>>
            /\ txParams[1].type = 2
            /\ txParams[1].maxFeePerGas = <<2 * transactionConfig.maxFeePerGas[1]>>
            /\ txParams[1].maxPriorityFeePerGas = transactionConfig.maxPriorityFeePerGas
       /\ onlyLegacy =>
            /\ txParams # <<>>
            /\ txParams[1].type = 0
            /\ txParams[1].gasPrice = transactionConfig.gasPrice
       /\ neither =>
            /\ kmsOutcome = "failed"
            /\ txParams = <<>>
            /\ "_signDigest" \notin Range(kmsRequests)
            /\ "sendSignedTransaction" \notin Range(kmsRequests)

\* C23: a call whose broadcast was rejected has rejected with the error of the
\* broadcast, which has no type = "call"; it sent the signed transaction once;
\* and an error has type = "call" exactly when it is the error of a simulation
\* call.
C23_BroadcastErrorPropagates ==
  /\ kmsError.at = "sendSignedTransaction" =>
       /\ kmsPc = "idle"
       /\ kmsOutcome = "failed"
       /\ kmsError.type = <<>>
       /\ Cardinality({i \in 1..Len(kmsRequests) :
                         kmsRequests[i] = "sendSignedTransaction"}) = 1
  /\ kmsError.type = <<"call">> <=> kmsError.at \in {"call", "estimateGas"}

\* The node refused the signed transaction of a call whose simulation succeeded.
C23_Witness ==
  /\ kmsError.at = "sendSignedTransaction"
  /\ kmsOutcome = "failed"
  /\ ~kmsPooled
  /\ returnValue # <<>>

-----------------------------------------------------------------------------
(* DisputerBalanceAlarm of disputerBalanceAlarm.js: one check of the wallet  *)
(* balance against the target, the warn, info and error logs, and the       *)
(* counter lastInfoUpdate that throttles the info log.                      *)

MaxChecks == 5

InfoInterval == 86400

\* Stands for the 1e18 of line 86: disputerBondPercentage / 1e18 is a fraction.
BondScale == 2

BufferPercentage == 2

PollingDelays == {0, 43200, 60000}
Balances == {0, 3, 6}
PositionCounts == {0, 1}
TotalCollaterals == {0, 4}
OoRewards == {1, 2}
BondPercentages == {1, 2}

\* Lines 85-87.
usdcTargetBalance(totalCollateralAmount, disputerBondPercentage, numOfOpenPositions, bufferPercentage, ooReward) ==
  (totalCollateralAmount * disputerBondPercentage) \div BondScale
    + numOfOpenPositions * bufferPercentage * ooReward

IsBelowTarget_Inclusive(balance, target) == balance <= target

\* Line 30.
IsBelowTarget(balance, target) == balance < target

InfoDue_Unthrottled(isWarningTriggered, lastInfoUpdate) == ~isWarningTriggered

InfoDue_ExactInterval(isWarningTriggered, lastInfoUpdate) ==
  ~isWarningTriggered /\ lastInfoUpdate = InfoInterval

\* Line 45.
InfoDue(isWarningTriggered, lastInfoUpdate) ==
  ~isWarningTriggered /\ lastInfoUpdate >= InfoInterval

CatchLogs_Silent(logs) == logs

\* Lines 60-66: the catch logs the error.
CatchLogs(logs) == Append(logs, "error")

dbaFields == <<dbaLastInfoUpdate, dbaNumOfOpenPositions, dbaTotalCollateral,
               dbaBondPercentage>>
dbaCallerVars == <<dbaOutcome, dbaLogs, dbaTarget, dbaPre, dbaThrown,
                   dbaChecksSinceInfo>>

\* The caller asks for a check; checks do not overlap. The call runs up to the
\* await of line 21 (line 17).
DbaCheckStart ==
  /\ dbaPc = "idle"
  /\ dbaChecksSinceInfo < MaxChecks
  /\ \E currentCollateralBalance \in Balances : dbaBalance' = currentCollateralBalance
  /\ dbaPc' = "awaitPositions"
  /\ dbaOoReward' = 0
  /\ dbaOutcome' = "none"
  /\ dbaLogs' = <<>>
  /\ dbaTarget' = <<>>
  /\ dbaPre' = dbaLastInfoUpdate
  /\ dbaThrown' = ""
  /\ UNCHANGED <<dbaPollingDelay, dbaFields, dbaChecksSinceInfo, notDba>>

\* Line 17 resolves; line 25 calls calculateUsdcTargetBalance, which runs up to the
\* await of line 73.
DbaPositionsRead ==
  /\ dbaPc = "awaitPositions"
  /\ \E length \in PositionCounts : dbaNumOfOpenPositions' = length
  /\ dbaPc' = "awaitTotalCollateral"
  /\ UNCHANGED <<dbaPollingDelay, dbaLastInfoUpdate, dbaTotalCollateral,
                 dbaBondPercentage, dbaBalance, dbaOoReward, dbaCallerVars, notDba>>

\* getAllPositions() of line 17 throws: line 21 is before the try, the check
\* rejects and nothing is logged.
DbaPositionsThrows ==
  /\ dbaPc = "awaitPositions"
  /\ dbaPc' = "idle"
  /\ dbaOutcome' = "threw"
  /\ dbaThrown' = "getAllPositions"
  /\ UNCHANGED <<dbaPollingDelay, dbaFields, dbaBalance, dbaOoReward, dbaLogs,
                 dbaTarget, dbaPre, dbaChecksSinceInfo, notDba>>

\* Line 73 resolves.
DbaTotalCollateralRead ==
  /\ dbaPc = "awaitTotalCollateral"
  /\ \E total \in TotalCollaterals : dbaTotalCollateral' = total
  /\ dbaPc' = "awaitOoReward"
  /\ UNCHANGED <<dbaPollingDelay, dbaLastInfoUpdate, dbaNumOfOpenPositions,
                 dbaBondPercentage, dbaBalance, dbaOoReward, dbaCallerVars, notDba>>

\* Line 77 resolves.
DbaOoRewardRead ==
  /\ dbaPc = "awaitOoReward"
  /\ \E ooReward \in OoRewards : dbaOoReward' = ooReward
  /\ dbaPc' = "awaitBondPercentage"
  /\ UNCHANGED <<dbaPollingDelay, dbaFields, dbaBalance, dbaCallerVars, notDba>>

\* Line 82 resolves: lines 85-90 give the target, lines 26-59 log and count.
DbaTargetComputed ==
  /\ dbaPc = "awaitBondPercentage"
  /\ \E percentage \in BondPercentages :
       LET targetUsdcWalletBalance ==
             usdcTargetBalance(dbaTotalCollateral, percentage, dbaNumOfOpenPositions,
                               BufferPercentage, dbaOoReward)
           isWarningTriggered == IsBelowTarget(dbaBalance, targetUsdcWalletBalance)
           info == InfoDue(isWarningTriggered, dbaLastInfoUpdate)
       IN /\ dbaBondPercentage' = percentage
          /\ dbaTarget' = <<targetUsdcWalletBalance>>
          /\ dbaLogs' = (IF isWarningTriggered THEN <<"warn">> ELSE <<>>)
                          \o (IF info THEN <<"info">> ELSE <<>>)
          /\ dbaLastInfoUpdate' =
               (IF info THEN 0 ELSE dbaLastInfoUpdate) + dbaPollingDelay
          /\ dbaChecksSinceInfo' = (IF info THEN 0 ELSE dbaChecksSinceInfo) + 1
  /\ dbaPc' = "idle"
  /\ dbaOutcome' = "ok"
  /\ UNCHANGED <<dbaPollingDelay, dbaNumOfOpenPositions, dbaTotalCollateral,
                 dbaBalance, dbaOoReward, dbaPre, dbaThrown, notDba>>

\* A call of line 73, 77 or 82 rejects: calculateUsdcTargetBalance throws, the
\* catch of lines 60-69 logs and throws again.
DbaTargetThrows ==
  /\ dbaPc \in {"awaitTotalCollateral", "awaitOoReward", "awaitBondPercentage"}
  /\ dbaPc' = "idle"
  /\ dbaOutcome' = "threw"
  /\ dbaThrown' = "calculateUsdcTargetBalance"
  /\ dbaLogs' = CatchLogs(dbaLogs)
  /\ UNCHANGED <<dbaPollingDelay, dbaFields, dbaBalance, dbaOoReward, dbaTarget,
                 dbaPre, dbaChecksSinceInfo, notDba>>

\* The constructor.
InitDba ==
  /\ dbaPollingDelay \in PollingDelays
  /\ dbaLastInfoUpdate = 0
  /\ dbaNumOfOpenPositions = 0
  /\ dbaTotalCollateral = 0
  /\ dbaBondPercentage = 0
  /\ dbaPc = "idle"
  /\ dbaBalance = 0
  /\ dbaOoReward = 0
  /\ dbaOutcome = "none"
  /\ dbaLogs = <<>>
  /\ dbaTarget = <<>>
  /\ dbaPre = 0
  /\ dbaThrown = ""
  /\ dbaChecksSinceInfo = 0

NextDba ==
  \/ DbaCheckStart
  \/ DbaPositionsRead
  \/ DbaPositionsThrows
  \/ DbaTotalCollateralRead
  \/ DbaOoRewardRead
  \/ DbaTargetComputed
  \/ DbaTargetThrows

InitSpecDba == InitOO /\ InitL2Idle /\ InitFeedIdle /\ InitKmsIdle /\ InitDba
                 /\ InitWbaIdle /\ InitPtwIdle /\ InitCom /\ InitDex

SpecDba == InitSpecDba /\ [][NextDba]_vars

-----------------------------------------------------------------------------
(* Properties of DisputerBalanceAlarm, checked under SpecDba.               *)

\* C24: in a check that computed its target, one warn log is emitted if
\* currentCollateralBalance is below the target and none otherwise, whatever the
\* value of lastInfoUpdate.
C24_WarnIffBelowTarget ==
  dbaTarget # <<>> =>
    /\ "warn" \in Range(dbaLogs) <=> dbaBalance < dbaTarget[1]
    /\ Cardinality({i \in 1..Len(dbaLogs) : dbaLogs[i] = "warn"}) <= 1

\* A warning in a check that found lastInfoUpdate between 0 and the interval, so
\* after a check that counted.
C24_Witness ==
  /\ dbaOutcome = "ok"
  /\ dbaLogs = <<"warn">>
  /\ dbaPre > 0
  /\ dbaPre < InfoInterval

\* C25: a check that reached line 45 logged info exactly if it logged no warn and
\* found lastInfoUpdate >= 86400; it never logged both; after an info log
\* lastInfoUpdate is pollingDelay, the count restarted; and a check logs info only
\* when the checks that returned since the last info log (or since construction)
\* add up to at least 86400 of pollingDelay.
C25_InfoThrottled ==
  /\ [](dbaOutcome = "ok" =>
          /\ "info" \in Range(dbaLogs) <=>
               ("warn" \notin Range(dbaLogs) /\ dbaPre >= InfoInterval)
          /\ ~("info" \in Range(dbaLogs) /\ "warn" \in Range(dbaLogs))
          /\ "info" \in Range(dbaLogs) => dbaLastInfoUpdate = dbaPollingDelay)
  /\ [](dbaOutcome = "threw" => "info" \notin Range(dbaLogs))
  /\ [][(dbaPc = "awaitBondPercentage" /\ "info" \in Range(dbaLogs'))
          => dbaChecksSinceInfo * dbaPollingDelay >= InfoInterval]_vars

\* An info log with a pollingDelay that does not divide the interval.
C25_Witness ==
  /\ dbaOutcome = "ok"
  /\ dbaLogs = <<"info">>
  /\ dbaPre > InfoInterval
  /\ dbaLastInfoUpdate = dbaPollingDelay

\* C26: a check in which calculateUsdcTargetBalance threw logged one error and
\* nothing else, threw to its caller, and left lastInfoUpdate as it was.
C26_TargetErrorLoggedAndThrown ==
  dbaThrown = "calculateUsdcTargetBalance" =>
    /\ dbaOutcome = "threw"
    /\ dbaPc = "idle"
    /\ dbaLogs = <<"error">>
    /\ dbaLastInfoUpdate = dbaPre

\* The target computation threw in a check in which an info log was due.
C26_Witness ==
  /\ dbaThrown = "calculateUsdcTargetBalance"
  /\ dbaLogs = <<"error">>
  /\ dbaPre >= InfoInterval

\* The alarm under a caller that keeps polling and a node that keeps answering: a
\* check that can start does start, and an awaited call is answered or rejects.
\* Which balance is passed and what the node answers stays free.
SpecDbaLive == InitSpecDba /\ [][NextDba]_vars /\ WF_vars(NextDba)

\* No check in progress or returned is unhealthy: the last check neither threw nor
\* logged a warning.
DbaHealthy == dbaOutcome # "threw" /\ "warn" \notin Range(dbaLogs)

\* C40: with pollingDelay > 0, if from some check onwards every check is healthy,
\* checks log the healthy info again and again: lastInfoUpdate grows by pollingDelay
\* in every check that returns and is only reset by the info log itself.
C40_HealthyInfoRecurs ==
  (dbaPollingDelay > 0 /\ <>[]DbaHealthy) => []<>("info" \in Range(dbaLogs))

\* A healthy check finds lastInfoUpdate exactly at the interval, reached by checks
\* that each added a positive pollingDelay, and logs info.
C40_Witness ==
  /\ dbaPollingDelay > 0
  /\ dbaOutcome = "ok"
  /\ dbaLogs = <<"info">>
  /\ dbaPre = InfoInterval
  /\ dbaChecksSinceInfo = 1

-----------------------------------------------------------------------------
(* WalletBalanceAlarm of walletBalanceAlarm.js: one check of the synthetic   *)
(* and of the collateral balance of the liquidator against their targets.   *)

MinSponsorTokens == 2

\* Line 79.
targetLiquidatorSynthBalance(minSponsorTokens, numOfOpenPositions) ==
  minSponsorTokens * numOfOpenPositions

\* Line 85.
targetLiquidatorCollateralBalance(numOfOpenPositions, ooReward) ==
  numOfOpenPositions * ooReward

\* Lines 32-65: the if / else if / else and what each branch logs and returns.
LiquidatorCheck(syntheticBalance, synthTarget, collateralBalance, collateralTarget) ==
  IF syntheticBalance < synthTarget
  THEN [logs |-> <<"warn synth">>, returns |-> "true"]
  ELSE IF collateralBalance < collateralTarget
  THEN [logs |-> <<"warn collateral">>, returns |-> "true"]
  ELSE [logs |-> <<"info">>, returns |-> "false"]

\* The caller asks for a check; checks do not overlap. The call runs up to the
\* await of line 78.
WbaCheckStart ==
  /\ wbaPc = "idle"
  /\ \E currentSyntheticBalance \in Balances, currentCollateralBalance \in Balances :
       /\ wbaSyntheticBalance' = currentSyntheticBalance
       /\ wbaCollateralBalance' = currentCollateralBalance
  /\ wbaPc' = "awaitSynthPositions"
  /\ wbaSynthTarget' = <<>>
  /\ wbaOoReward' = 0
  /\ wbaCollateralTarget' = <<>>
  /\ wbaLogs' = <<>>
  /\ wbaOutcome' = "none"
  /\ UNCHANGED <<wbaNumOfOpenPositions, notWba>>

\* Line 78 resolves: line 79 gives the synth target, line 24 runs up to line 83.
WbaSynthTargetComputed ==
  /\ wbaPc = "awaitSynthPositions"
  /\ \E length \in PositionCounts :
       /\ wbaNumOfOpenPositions' = length
       /\ wbaSynthTarget' = <<targetLiquidatorSynthBalance(MinSponsorTokens, length)>>
  /\ wbaPc' = "awaitOoReward"
  /\ UNCHANGED <<wbaSyntheticBalance, wbaCollateralBalance, wbaOoReward,
                 wbaCollateralTarget, wbaLogs, wbaOutcome, notWba>>

\* Line 83 resolves.
WbaOoRewardRead ==
  /\ wbaPc = "awaitOoReward"
  /\ \E ooReward \in OoRewards : wbaOoReward' = ooReward
  /\ wbaPc' = "awaitCollateralPositions"
  /\ UNCHANGED <<wbaNumOfOpenPositions, wbaSyntheticBalance, wbaCollateralBalance,
                 wbaSynthTarget, wbaCollateralTarget, wbaLogs, wbaOutcome, notWba>>

\* Line 84 resolves: line 85 gives the collateral target, lines 26-65 log and
\* return.
WbaChecked ==
  /\ wbaPc = "awaitCollateralPositions"
  /\ \E length \in PositionCounts :
       LET target == targetLiquidatorCollateralBalance(length, wbaOoReward)
           check == LiquidatorCheck(wbaSyntheticBalance, wbaSynthTarget[1],
                                    wbaCollateralBalance, target)
       IN /\ wbaNumOfOpenPositions' = length
          /\ wbaCollateralTarget' = <<target>>
          /\ wbaLogs' = check.logs
          /\ wbaOutcome' = check.returns
  /\ wbaPc' = "idle"
  /\ UNCHANGED <<wbaSyntheticBalance, wbaCollateralBalance, wbaSynthTarget,
                 wbaOoReward, notWba>>

\* A call of line 78, 83 or 84 throws: the catch of lines 66-74 logs and throws
\* again.
WbaTargetThrows ==
  /\ wbaPc # "idle"
  /\ wbaPc' = "idle"
  /\ wbaLogs' = <<"error">>
  /\ wbaOutcome' = "threw"
  /\ UNCHANGED <<wbaNumOfOpenPositions, wbaSyntheticBalance, wbaCollateralBalance,
                 wbaSynthTarget, wbaOoReward, wbaCollateralTarget, notWba>>

NextWba ==
  \/ WbaCheckStart
  \/ WbaSynthTargetComputed
  \/ WbaOoRewardRead
  \/ WbaChecked
  \/ WbaTargetThrows

InitSpecWba == InitOO /\ InitL2Idle /\ InitFeedIdle /\ InitKmsIdle /\ InitDbaIdle
                 /\ InitWbaIdle /\ InitPtwIdle /\ InitCom /\ InitDex

SpecWba == InitSpecWba /\ [][NextWba]_vars

-----------------------------------------------------------------------------
(* Properties of WalletBalanceAlarm, checked under SpecWba.                 *)

\* C28: a check that computed both targets logged the synth warning exactly if
\* the synthetic balance is below its target, and the collateral warning exactly
\* if the collateral balance is below its target, so both when both are below.
C28_BothWarnings ==
  wbaCollateralTarget # <<>> =>
    /\ "warn synth" \in Range(wbaLogs) <=> wbaSyntheticBalance < wbaSynthTarget[1]
    /\ "warn collateral" \in Range(wbaLogs)
         <=> wbaCollateralBalance < wbaCollateralTarget[1]

-----------------------------------------------------------------------------
(* ProxyTransactionWrapper of the disputer: submitDisputeTransaction and the *)
(* three methods that send a dispute.                                       *)

MaxDisputes == 3

DisputeArgs == [liquidationId : {0, 1}, sponsor : {"sponsor1", "sponsor2"}]

\* Lines 125-127 of submitDisputeTransaction: the method that is called.
DisputeRoute(useDsProxy, useKMS) ==
  IF useDsProxy THEN "_executeDisputeWithoutDsProxy"
  ELSE IF useKMS THEN "_executeDisputeWithKMS"
  ELSE "_executeDisputeWithoutDsProxy"

\* The calls a method awaits, in order.
RouteAwaits(route) ==
  IF route = "_executeDisputeWithKMS" THEN <<"sendTxWithKMS", "getPastEvents">>
  ELSE IF route = "_executeDisputeWithDsProxy"
    THEN <<"getBlock", "callFunctionOnNewlyDeployedLibrary", "blockUntilBlockMined",
           "getPastEvents">>
  ELSE <<"runTransaction">>

\* The type field of what a method returns.
RouteType(route) ==
  IF route = "_executeDisputeWithKMS" THEN "KMS Dispute"
  ELSE IF route = "_executeDisputeWithDsProxy"
    THEN "DSProxy Swap and dispute transaction"
  ELSE "Standard EOA Dispute"

\* A rejected await: the KMS and the EOA method catch the error and return it, the
\* DSProxy method has no try.
RouteFailure(route) ==
  IF route = "_executeDisputeWithDsProxy" THEN "threw" ELSE "returned error"

\* The disputer submits a dispute; calls do not overlap. The method runs up to its
\* first await.
PtwSubmit ==
  /\ ptwStep = 0
  /\ ptwSubmitted < MaxDisputes
  /\ \E args \in DisputeArgs : disputeArgs' = args
  /\ ptwRoute' = DisputeRoute(useDsProxyToDispute, useKMSToDispute)
  /\ ptwStep' = 1
  /\ ptwCalls' = <<RouteAwaits(DisputeRoute(useDsProxyToDispute, useKMSToDispute))[1]>>
  /\ ptwResult' = <<>>
  /\ ptwSubmitted' = ptwSubmitted + 1
  /\ UNCHANGED <<useDsProxyToDispute, useKMSToDispute, notPtw>>

\* The awaited call resolves: the next call is made, or the method returns.
PtwResolved ==
  /\ ptwStep > 0
  /\ IF ptwStep < Len(RouteAwaits(ptwRoute))
     THEN /\ ptwStep' = ptwStep + 1
          /\ ptwCalls' = Append(ptwCalls, RouteAwaits(ptwRoute)[ptwStep + 1])
          /\ UNCHANGED ptwResult
     ELSE /\ ptwStep' = 0
          /\ ptwResult' = <<[how |-> "returned", type |-> RouteType(ptwRoute)]>>
          /\ UNCHANGED ptwCalls
  /\ UNCHANGED <<useDsProxyToDispute, useKMSToDispute, ptwRoute, disputeArgs,
                 ptwSubmitted, notPtw>>

\* The awaited call rejects.
PtwRejected ==
  /\ ptwStep > 0
  /\ ptwStep' = 0
  /\ ptwResult' = <<[how |-> RouteFailure(ptwRoute), type |-> ""]>>
  /\ UNCHANGED <<useDsProxyToDispute, useKMSToDispute, ptwRoute, disputeArgs,
                 ptwCalls, ptwSubmitted, notPtw>>

\* The constructor: the two flags of the configuration are booleans.
InitPtw ==
  /\ useDsProxyToDispute \in BOOLEAN
  /\ useKMSToDispute \in BOOLEAN
  /\ ptwRoute = ""
  /\ ptwStep = 0
  /\ disputeArgs = [liquidationId |-> 0, sponsor |-> "sponsor1"]
  /\ ptwCalls = <<>>
  /\ ptwResult = <<>>
  /\ ptwSubmitted = 0

NextPtw ==
  \/ PtwSubmit
  \/ PtwResolved
  \/ PtwRejected

InitSpecPtw == InitOO /\ InitL2Idle /\ InitFeedIdle /\ InitKmsIdle /\ InitDbaIdle
                 /\ InitWbaIdle /\ InitPtw /\ InitCom /\ InitDex

SpecPtw == InitSpecPtw /\ [][NextPtw]_vars

-----------------------------------------------------------------------------
(* Properties of ProxyTransactionWrapper, checked under SpecPtw.            *)

\* C29: a dispute that was submitted went to _executeDisputeWithDsProxy if
\* useDsProxyToDispute is true, else to _executeDisputeWithKMS if useKMSToDispute
\* is true, else to _executeDisputeWithoutDsProxy.
C29_DisputeRoute ==
  ptwRoute # "" =>
    ptwRoute = (IF useDsProxyToDispute THEN "_executeDisputeWithDsProxy"
                ELSE IF useKMSToDispute THEN "_executeDisputeWithKMS"
                ELSE "_executeDisputeWithoutDsProxy")

-----------------------------------------------------------------------------
(* CommoditiesApiPriceFeed: update() and the getters. getHistoricalPrice is  *)
(* an async function, so what it gives its caller is a promise.             *)

\* One entry of historyResponse.data.rates: the day and the two rates.
RateEntries == [day : DateTimes, base : {0, 2}, commodity : {1}]

\* What networker.getJson may resolve with: a body without data, or a body whose
\* rates have up to two days.
RateResponses ==
  {[hasData |-> FALSE, rates |-> <<>>]}
    \cup {[hasData |-> TRUE, rates |-> l] :
            l \in {<<>>} \cup {<<a>> : a \in RateEntries}
                        \cup {<<a, b>> : a \in RateEntries, b \in RateEntries}}

\* Lines 287-289: each entry of rates with its day in seconds as date.
ratePeriods(rates) ==
  [i \in 1..Len(rates) |->
     [date |-> dateTimeToSecond(rates[i].day), base |-> rates[i].base,
      commodity |-> rates[i].commodity]]

RejectedWith(message, history) ==
  [promise |-> "rejected", with |-> message, from |-> history]
FulfilledWith(value, history) ==
  [promise |-> "fulfilled", with |-> value, from |-> history]

\* getHistoricalPrice(time) of lines 311-367, on the fields as they are. firstPrice
\* is a number, firstPrice.date is undefined and the comparison of line 332 is
\* false. A match has no openPrice: the promise is fulfilled with undefined.
\* Without a match the function returns currentPrice, itself a promise, and the
\* promise of the call follows it.
comGetHistoricalPrice(time) ==
  LET valid == {i \in 1..Len(comPriceHistory) :
                  /\ comPriceHistory[i].base # 0
                  /\ comPriceHistory[i].commodity # 0}
      later == {i \in 1..Len(comPriceHistory) : time < comPriceHistory[i].date}
  IN IF valid = {} THEN RejectedWith("no valid price periods", comPriceHistory)
     ELSE IF later # {} THEN FulfilledWith("undefined", comPriceHistory)
     ELSE IF comCurrentPrice = <<>>
       THEN RejectedWith("currentPrice is null", comPriceHistory)
     ELSE [comCurrentPrice[1] EXCEPT !.from = comPriceHistory]

comGetCurrentPrice == comCurrentPrice

comFieldVars == <<comCurrentPrice, comPriceHistory, comLastUpdateTime>>

\* Time passes.
ComTick ==
  /\ comTime < MaxFeedTime
  /\ comTime' = comTime + 1
  /\ UNCHANGED <<comFieldVars, comPc, comNow, comOutcome, notCom>>

\* The caller starts update(); calls do not overlap. It suspends at getTime().
ComUpdateStart ==
  /\ comPc = "idle"
  /\ comPc' = "awaitTime"
  /\ comOutcome' = "none"
  /\ UNCHANGED <<comTime, comFieldVars, comNow, notCom>>

\* getTime() resolves: the early return of line 235, or the request of line 272.
ComTimeRead ==
  /\ comPc = "awaitTime"
  /\ comNow' = comTime
  /\ IF TooRecent(comLastUpdateTime, MinTimeBetweenUpdates, comTime)
     THEN /\ comPc' = "idle"
          /\ comOutcome' = "skipped"
     ELSE /\ comPc' = "awaitJson"
          /\ UNCHANGED comOutcome
  /\ UNCHANGED <<comTime, comFieldVars, notCom>>

\* networker.getJson resolves: steps 3 to 5 of update(). Line 293 calls
\* getHistoricalPrice before line 294 stores the new periods.
ComJsonRead ==
  /\ comPc = "awaitJson"
  /\ \E historyResponse \in RateResponses :
       IF ~historyResponse.hasData
       THEN /\ comOutcome' = "failed"
            /\ UNCHANGED comFieldVars
       ELSE /\ comCurrentPrice' = <<comGetHistoricalPrice(comNow)>>
            /\ comPriceHistory' = ratePeriods(historyResponse.rates)
            /\ comLastUpdateTime' = <<comNow>>
            /\ comOutcome' = "ok"
  /\ comPc' = "idle"
  /\ UNCHANGED <<comTime, comNow, notCom>>

\* getTime() or networker.getJson rejects.
ComRejects ==
  /\ comPc # "idle"
  /\ comPc' = "idle"
  /\ comOutcome' = "failed"
  /\ UNCHANGED <<comTime, comFieldVars, comNow, notCom>>

NextCom ==
  \/ ComTick
  \/ ComUpdateStart
  \/ ComTimeRead
  \/ ComJsonRead
  \/ ComRejects

InitSpecCom == InitOO /\ InitL2Idle /\ InitFeedIdle /\ InitKmsIdle /\ InitDbaIdle
                 /\ InitWbaIdle /\ InitPtwIdle /\ InitCom /\ InitDex

SpecCom == InitSpecCom /\ [][NextCom]_vars

-----------------------------------------------------------------------------
(* Properties of CommoditiesApiPriceFeed, checked under SpecCom.            *)

\* C30: after an update() that stored its results, getCurrentPrice() is a price,
\* not null and not a promise, and it comes from the periods this update stored.
C30_CurrentPriceFromThisUpdate ==
  comOutcome = "ok" =>
    /\ comGetCurrentPrice # <<>>
    /\ comGetCurrentPrice[1].promise = "none"
    /\ comGetCurrentPrice[1].from = comPriceHistory

-----------------------------------------------------------------------------
(* OptimisticDepositBox.sol: the OptimisticDex contract and the MockOracle   *)
(* it asks for prices. A transaction is one step; a transaction that        *)
(* reverts changes nothing and is no step. fillToken and chainId of         *)
(* DepositData are written by deposit() and read by no function; they are   *)
(* left out.                                                                *)

MaxCollateral == 2          \* the collateral one depositor puts in
Amounts == {1, 2}
Recipients == {"filler"}
PushedPrices == {0 - 1, 1}

\* The priceIdentifier of the constructor of OptimisticDex.
priceIdentifier == "ETH/USD"

\* The storage of the MockOracle.
MockOracle ==
  [verifiedPrices |-> verifiedPrices, queryIndices |-> queryIndices,
   requestedPrices |-> requestedPrices]

\* MockOracle.requestPrice, for a supported identifier.
requestPrice(oracle, identifier, timestamp) ==
  LET lookup == oracle.verifiedPrices[<<identifier, timestamp>>]
  IN IF ~lookup.isAvailable /\ ~oracle.queryIndices[<<identifier, timestamp>>].isValid
     THEN [oracle EXCEPT
             !.queryIndices[<<identifier, timestamp>>] =
                [isValid |-> TRUE, index |-> Len(oracle.requestedPrices)],
             !.requestedPrices = Append(@, <<identifier, timestamp>>)]
     ELSE oracle

\* MockOracle.pushPrice past its require: the array after the replacement of
\* lines 384-389. No element is removed from the array.
ReplacedQueries(queries, indexToReplace) ==
  LET lastIndex == Len(queries) - 1
  IN IF lastIndex # indexToReplace
     THEN [queries EXCEPT ![indexToReplace + 1] = queries[lastIndex + 1]]
     ELSE queries

\* The index mapping after lines 383-388.
ReplacedIndices(indices, queries, identifier, time) ==
  LET indexToReplace == indices[<<identifier, time>>].index
      lastIndex == Len(queries) - 1
      deleted == [indices EXCEPT ![<<identifier, time>>] =
                    [isValid |-> FALSE, index |-> 0]]
  IN IF lastIndex # indexToReplace
     THEN [deleted EXCEPT ![queries[lastIndex + 1]].index = indexToReplace]
     ELSE deleted

hasPrice(identifier, time) == verifiedPrices[<<identifier, time>>].isAvailable

settleAndGetPrice(identifier, timestamp) == verifiedPrices[<<identifier, timestamp>>].price

getPendingQueries == requestedPrices

\* OptimisticDex._getOraclePrice past its require.
getOraclePrice(withdrawalRequestTimestamp) ==
  LET oraclePrice == settleAndGetPrice(priceIdentifier, withdrawalRequestTimestamp)
  IN IF oraclePrice < 0 THEN 0 ELSE oraclePrice

\* The preimage of fillHash in executeWithdrawal.
FillHash(recipient, amountFilled, depositor, withdrawalRequestTimestamp) ==
  <<recipient, amountFilled, depositor, withdrawalRequestTimestamp>>

oracleVars == <<verifiedPrices, queryIndices, requestedPrices>>
boxVars == <<fillRequests, completedFills, totalOptimisticDexCollateral>>

\* The oracle after _requestOraclePrice(requestedTime, recipient).
OracleAsked(requestedTime) ==
  LET asked == requestPrice(MockOracle, priceIdentifier, requestedTime)
  IN /\ verifiedPrices' = asked.verifiedPrices
     /\ queryIndices' = asked.queryIndices
     /\ requestedPrices' = asked.requestedPrices
     /\ moAsked' = moAsked \cup {<<priceIdentifier, requestedTime>>}

\* Timer.setCurrentTime: the time of the test environment moves on.
DexSetCurrentTime ==
  /\ dexTime < MaxDexTime
  /\ dexTime' = dexTime + 1
  /\ UNCHANGED <<oracleVars, boxVars, moAsked, moPushed, notDex>>

\* Any account calls MockOracle.requestPrice.
MoRequestPrice ==
  /\ \E identifier \in Identifiers, timestamp \in 1..MaxDexTime :
       LET asked == requestPrice(MockOracle, identifier, timestamp)
       IN /\ verifiedPrices' = asked.verifiedPrices
          /\ queryIndices' = asked.queryIndices
          /\ requestedPrices' = asked.requestedPrices
          /\ moAsked' = moAsked \cup {<<identifier, timestamp>>}
  /\ UNCHANGED <<dexTime, boxVars, moPushed, notDex>>

\* Any account calls MockOracle.pushPrice.
MoPushPrice ==
  /\ \E identifier \in Identifiers, time \in 1..MaxDexTime, price \in PushedPrices :
       /\ queryIndices[<<identifier, time>>].isValid
       /\ verifiedPrices' =
            [verifiedPrices EXCEPT ![<<identifier, time>>] =
               [isAvailable |-> TRUE, price |-> price, verifiedTime |-> dexTime]]
       /\ queryIndices' = ReplacedIndices(queryIndices, requestedPrices, identifier, time)
       /\ requestedPrices' =
            ReplacedQueries(requestedPrices, queryIndices[<<identifier, time>>].index)
       /\ moPushed' = moPushed \cup {<<identifier, time>>}
  /\ UNCHANGED <<dexTime, boxVars, moAsked, notDex>>

\* OptimisticDex.deposit.
DexDeposit ==
  /\ \E sender \in Accounts, collateralAmount \in Amounts, fillRequestAmount \in Amounts,
        recipient \in Recipients :
       /\ collateralAmount > 0
       /\ fillRequests[sender].collateral + collateralAmount <= MaxCollateral
       /\ fillRequests' =
            [fillRequests EXCEPT ![sender] =
               [@ EXCEPT !.collateral = @ + collateralAmount,
                         !.fillRequestAmount = fillRequestAmount,
                         !.recipient = recipient]]
       /\ totalOptimisticDexCollateral' = totalOptimisticDexCollateral + collateralAmount
  /\ UNCHANGED <<oracleVars, dexTime, completedFills, moAsked, moPushed, notDex>>

\* The require of the modifier noPendingWithdrawal.
fillRequestHasNoPendingWithdrawal(user) ==
  fillRequests[user].withdrawalRequestTimestamp = 0

\* OptimisticDex.requestWithdrawal.
DexRequestWithdrawal ==
  /\ \E sender \in Accounts, denominatedCollateralAmount \in Amounts :
       /\ fillRequestHasNoPendingWithdrawal(sender)
       /\ denominatedCollateralAmount > 0
       /\ fillRequests' =
            [fillRequests EXCEPT ![sender] =
               [@ EXCEPT !.fillRequestAmount = denominatedCollateralAmount,
                         !.withdrawalRequestTimestamp = dexTime]]
       /\ OracleAsked(dexTime)
  /\ UNCHANGED <<dexTime, completedFills, totalOptimisticDexCollateral, moPushed, notDex>>

\* OptimisticDex.requestWithdrawalAfterFill: any sender, for any depositor.
DexRequestWithdrawalAfterFill ==
  /\ \E sender \in Accounts, fillAmount \in Amounts, depositor \in Accounts :
       /\ fillAmount > 0
       /\ fillRequests' =
            [fillRequests EXCEPT ![depositor] =
               [@ EXCEPT !.fillRequestAmount = fillAmount,
                         !.withdrawalRequestTimestamp = dexTime]]
       /\ OracleAsked(dexTime)
  /\ UNCHANGED <<dexTime, completedFills, totalOptimisticDexCollateral, moPushed, notDex>>

\* OptimisticDex.executeWithdrawal, all its requires passed.
DexExecuteWithdrawal ==
  /\ \E sender \in Accounts, depositor \in Accounts :
       LET fillRequestData == fillRequests[depositor]
           amountFilled == getOraclePrice(fillRequestData.withdrawalRequestTimestamp)
           fillHash == FillHash(fillRequestData.recipient, amountFilled, depositor,
                                fillRequestData.withdrawalRequestTimestamp)
       IN /\ fillRequestData.withdrawalRequestTimestamp # 0
          /\ fillRequestData.withdrawalRequestTimestamp <= dexTime
          /\ hasPrice(priceIdentifier, fillRequestData.withdrawalRequestTimestamp)
          /\ fillHash \notin completedFills
          /\ fillRequestData.collateral >= amountFilled
          /\ totalOptimisticDexCollateral >= amountFilled
          /\ fillRequests' =
               [fillRequests EXCEPT ![depositor].collateral = @ - amountFilled]
          /\ totalOptimisticDexCollateral' = totalOptimisticDexCollateral - amountFilled
          /\ completedFills' = completedFills \cup {fillHash}
  /\ UNCHANGED <<oracleVars, dexTime, moAsked, moPushed, notDex>>

\* The MockOracle called directly.
NextMo ==
  \/ DexSetCurrentTime
  \/ MoRequestPrice
  \/ MoPushPrice

\* The OptimisticDex, with prices pushed into its oracle.
NextDex ==
  \/ DexSetCurrentTime
  \/ MoPushPrice
  \/ DexDeposit
  \/ DexRequestWithdrawal
  \/ DexRequestWithdrawalAfterFill
  \/ DexExecuteWithdrawal

InitSpecDex == InitOO /\ InitL2Idle /\ InitFeedIdle /\ InitKmsIdle /\ InitDbaIdle
                 /\ InitWbaIdle /\ InitPtwIdle /\ InitCom /\ InitDex

SpecDex == InitSpecDex /\ [][NextDex]_vars

InitSpecMo == InitOO /\ InitL2Idle /\ InitFeedIdle /\ InitKmsIdle /\ InitDbaIdle
                /\ InitWbaIdle /\ InitPtwIdle /\ InitCom /\ InitDex

SpecMo == InitSpecMo /\ [][NextMo]_vars

-----------------------------------------------------------------------------
(* Properties of the contracts of OptimisticDepositBox.sol: C35 is checked  *)
(* under SpecMo, C36 under SpecDex.                                         *)

\* C35: after any sequence of requestPrice and pushPrice calls,
\* getPendingQueries() holds exactly the pairs that were requested and were not
\* given a price through pushPrice, each pair once.
C35_PendingQueriesExact ==
  /\ Range(getPendingQueries) = moAsked \ moPushed
  /\ Len(getPendingQueries) = Cardinality(Range(getPendingQueries))

\* The withdrawal request of the depositor was executed.
Executed(depositor) ==
  \E fillHash \in completedFills :
    /\ fillHash[3] = depositor
    /\ fillHash[4] = fillRequests[depositor].withdrawalRequestTimestamp

\* C36: once a depositor has a pending withdrawal request
\* (withdrawalRequestTimestamp != 0), no call replaces it with a request of
\* another amount or another timestamp before it has been executed. A deposit,
\* which adds collateral, is not counted as a request.
C36_OneWithdrawalRequest ==
  [][\A depositor \in Accounts :
       (fillRequests[depositor].withdrawalRequestTimestamp # 0 /\ ~Executed(depositor))
         => /\ fillRequests'[depositor].withdrawalRequestTimestamp =
                 fillRequests[depositor].withdrawalRequestTimestamp
            /\ \/ fillRequests'[depositor].fillRequestAmount =
                    fillRequests[depositor].fillRequestAmount
               \/ fillRequests'[depositor].collateral >
                    fillRequests[depositor].collateral]_vars

====
